---- MODULE Spec2Model ----
(***************************************************************************)
(* HookGPT front end: the tagged-stream handler (JsonStreamHandler in      *)
(* app/utils/streamUtils.ts), the chat controller (ChatComponent.tsx) and  *)
(* its consumer (HookCreationPage.tsx).                                    *)
(*                                                                         *)
(* A JavaScript string is a sequence of one-character strings.  Positions  *)
(* are 1-based; 0 stands for "not found" (indexOf's -1).  An object is a   *)
(* function whose DOMAIN is the set of keys the object has.                *)
(***************************************************************************)
EXTENDS Integers, Sequences, FiniteSets, TLC

VARIABLES
    \* JsonStreamHandler (streamUtils.ts:8-211)
    rawContent,          \* this.rawContent
    lastParsedData,      \* this.lastParsedData
    finalData,           \* what getFinalData last returned
    \* the driver of a session
    payload,             \* the complete text the model produces
    rest,                \* the part of payload not yet delivered
    hpc,                 \* stand-alone handler: "feeding" | "final" | "late"; "chunks" for
                         \* processHookCodeChunk, "wire" | "wireDone" for the SSE reader;
                         \* else "embedded"
    split,               \* TRUE once a second fragment has been delivered
    \* ChatComponent (ChatComponent.tsx)
    cpc,                 \* "idle" | "fetching" | "reading" | "ended"; "none" when unused
    bufferRef,           \* bufferRef.current
    accumulatedReplyRef, \* accumulatedReplyRef.current
    parsedContent,       \* the parsedContent state, [reply, hookCode]
    isStreamingReply,    \* the isStreamingReply state
    streamError,         \* the streamError state, "null" or a message
    finalReply,          \* processStreamEvents' local finalReply
    \* the transport of the session
    cuts,                \* the positions of payload after which a fragment may end
    controlLeft,         \* error and early [DONE] frames the transport may still send
    nError,              \* error frames processed
    nDone,               \* [DONE] frames processed
    \* what ChatComponent has called on its collaborators, in order
    replyReceived,       \* the arguments of onReplyReceived
    streamingChanges,    \* the arguments of onStreamingChange
    errorsReceived,      \* the arguments of onError
    assistantMessages,   \* the arguments of addAssistantMessage
    \* HookCreationPage (HookCreationPage.tsx)
    streamingHookCode,   \* the streamingHookCode state
    closureHookCode,     \* streamingHookCode as the running session's closure sees it
    jsonData,            \* the jsonData state
    isStreaming,         \* the isStreaming state
    isStreamingHookCode, \* the isStreamingHookCode state
    streamingComplete,   \* the streamingComplete state
    pageError,           \* the error state, "null" or a message
    handlerRef,          \* jsonStreamHandlerRef.current # null
    \* the later submissions of the same component
    nextStreams,         \* the streams the later submissions will be answered with
    olderLoops,          \* the processStreamEvents runs of earlier submissions still reading
    stopLeft,            \* TRUE while the user may still press Stop
    \* processHookCodeChunk (streamUtils.ts), applied to streamingHookCode
    parseOutcome,        \* what JSON.parse and jsonrepair made of the last chunk
    \* the SSE reader of processStreamEvents (ChatComponent.tsx)
    sseBuffer,           \* processStreamEvents' local buffer
    sseEvents,           \* the data of the events handled, in order
    \* HooksController and the database behind it
    spc,                 \* the handler's position, "idle" between requests
    route,               \* the handler that serves the request
    modelChunks,         \* what the model's stream will still yield
    modelFails,          \* TRUE when the model's stream throws at its end
    frames,              \* the frames written to the response, in order
    resStatus,           \* the status of a response sent without streaming, or 0
    resEnded,            \* res.end() has been called
    fullReply,           \* the handler's local fullReply
    srvHookData,         \* the handler's local hookData
    messages,            \* the message rows stored for the session, in order
    userMessage,         \* the request's latest user message
    messageHistory,      \* the history initializeSession returned
    hookCodes,           \* the hookCode row stored for the session, or Null
    sessionHookCode,     \* the hookCode initializeSession returned
    requestsLeft,        \* the requests the client will still make
    \* HookCodeRepository.createHookCode and the HookCode table
    hookRows,            \* the rows of the table
    upsertCalls,         \* the calls of createHookCode: position, data, row found, result
    \* ChatComponent's automatic submission of the first user message
    sessionId,           \* useSession().sessionId, "null" before the session exists
    userMsgCount,        \* the user messages in customMessages
    hasAutoSubmittedRef, \* hasAutoSubmittedRef.current
    autoTimers,          \* the setTimeout callbacks of the effect not run yet
    autoSubmissions,     \* the handleCustomSubmit(e, true) calls that began streaming
    \* LLMModelManager
    llmInstance,         \* LLMModelManager._instance, Null before the first one
    llmReturned,         \* the last getInstance call: its config and the manager it
                         \* returned, Null if it threw
    llmBuilt,            \* the LLMModelManager objects constructed
    llmCallsLeft         \* the getInstance calls still to come

handlerVars == <<rawContent, lastParsedData, finalData>>
driverVars == <<payload, rest, hpc, split>>
chatVars == <<cpc, bufferRef, accumulatedReplyRef, parsedContent, isStreamingReply,
              streamError, finalReply>>
transportVars == <<cuts, controlLeft, nError, nDone>>
callVars == <<replyReceived, streamingChanges, errorsReceived, assistantMessages>>
pageVars == <<streamingHookCode, closureHookCode, jsonData, isStreaming,
              isStreamingHookCode, streamingComplete, pageError, handlerRef>>

sessionVars == <<nextStreams, olderLoops, stopLeft>>
fallbackVars == <<parseOutcome>>
readerVars == <<sseBuffer, sseEvents>>
serverVars == <<spc, route, modelChunks, modelFails, frames, resStatus, resEnded,
                fullReply, srvHookData, messages, userMessage, messageHistory,
                hookCodes, sessionHookCode, requestsLeft>>
upsertVars == <<hookRows, upsertCalls>>
autoVars == <<sessionId, userMsgCount, hasAutoSubmittedRef, autoTimers, autoSubmissions>>
managerVars == <<llmInstance, llmReturned, llmBuilt, llmCallsLeft>>
backVars == <<upsertVars, autoVars, managerVars>>
\* the state of the parts a front-end session does not run
offstageVars == <<fallbackVars, readerVars, serverVars, backVars>>

vars == <<handlerVars, driverVars, chatVars, transportVars, callVars, pageVars,
          sessionVars,
         fallbackVars, readerVars, serverVars, backVars>>

----------------------------------------------------------------------------
(* Strings *)

Min(S) == CHOOSE x \in S : \A y \in S : x <= y

\* F applied to the value of v: the value is computed once and named, where
\* a LET definition or an operator argument is computed at every use
Bind(v, F(_)) == CHOOSE r \in { F(x) : x \in {v} } : TRUE

\* String.prototype.indexOf(pat, from), positions 1-based, 0 when absent
IndexOf(s, pat, from) ==
    Bind({ i \in from .. (Len(s) - Len(pat) + 1) :
             s[i] = pat[1] /\ SubSeq(s, i, i + Len(pat) - 1) = pat }, LAMBDA hits :
        IF hits = {} THEN 0 ELSE Min(hits))

\* String.prototype.includes(pat)
Includes(s, pat) == IndexOf(s, pat, 1) # 0

IsSpace(c) == c \in {" ", "\n", "\t", "\r"}

\* String.prototype.trim()
Trim(s) ==
    Bind({ i \in 1 .. Len(s) : ~IsSpace(s[i]) }, LAMBDA solid :
        IF solid = {} THEN <<>>
        ELSE SubSeq(s, Min(solid), CHOOSE j \in solid : \A k \in solid : k <= j))

UpperLetters == <<"A","B","C","D","E","F","G","H","I","J","K","L","M",
                  "N","O","P","Q","R","S","T","U","V","W","X","Y","Z">>
LowerLetters == <<"a","b","c","d","e","f","g","h","i","j","k","l","m",
                  "n","o","p","q","r","s","t","u","v","w","x","y","z">>

LowerOf(c) ==
    IF \E i \in 1 .. Len(UpperLetters) : UpperLetters[i] = c
    THEN LowerLetters[CHOOSE i \in 1 .. Len(UpperLetters) : UpperLetters[i] = c]
    ELSE c

\* String.prototype.toLowerCase()
ToLowerCase(s) == [i \in 1 .. Len(s) |-> LowerOf(s[i])]

HexDigits == <<"0","1","2","3","4","5","6","7","8","9","a","b","c","d","e","f">>

DigitValue(c) ==
    LET lc == LowerOf(c)
    IN  IF \E i \in 1 .. Len(HexDigits) : HexDigits[i] = lc
        THEN (CHOOSE i \in 1 .. Len(HexDigits) : HexDigits[i] = lc) - 1
        ELSE 99

RECURSIVE DigitsValue(_, _, _)
\* the value of the longest prefix of s made of digits of the radix;
\* acc is the value so far, <<>> when no digit has been read
DigitsValue(s, radix, acc) ==
    IF s = <<>> \/ DigitValue(Head(s)) >= radix THEN acc
    ELSE DigitsValue(Tail(s), radix,
                     <<(IF acc = <<>> THEN 0 ELSE acc[1] * radix) + DigitValue(Head(s))>>)

NaN == <<"NaN">>
IntVal(n) == <<"int", n>>

\* parseInt(s) with no radix: leading white space, a sign, 0x for radix 16,
\* then the longest run of digits; NaN when there is none
ParseInt(str) ==
    LET s    == Trim(str)
        neg  == s # <<>> /\ s[1] = "-"
        body == IF s # <<>> /\ s[1] \in {"-", "+"} THEN Tail(s) ELSE s
        hex  == Len(body) >= 2 /\ body[1] = "0" /\ body[2] \in {"x", "X"}
        v    == IF hex THEN DigitsValue(Tail(Tail(body)), 16, <<>>)
                ELSE DigitsValue(body, 10, <<>>)
    IN  IF v = <<>> THEN NaN ELSE IntVal(IF neg THEN 0 - v[1] ELSE v[1])

----------------------------------------------------------------------------
(* The tag vocabulary *)

OpenName == <<"<","n","a","m","e",">">>
CloseName == <<"<","/","n","a","m","e",">">>
OpenDescription == <<"<","d","e","s","c","r","i","p","t","i","o","n",">">>
CloseDescription == <<"<","/","d","e","s","c","r","i","p","t","i","o","n",">">>
OpenHookCode == <<"<","h","o","o","k","C","o","d","e",">">>
CloseHookCode == <<"<","/","h","o","o","k","C","o","d","e",">">>
OpenGasEstimate == <<"<","g","a","s","E","s","t","i","m","a","t","e",">">>
CloseGasEstimate == <<"<","/","g","a","s","E","s","t","i","m","a","t","e",">">>
OpenFeature == <<"<","f","e","a","t","u","r","e",">">>
CloseFeature == <<"<","/","f","e","a","t","u","r","e",">">>
OpenTestCode == <<"<","t","e","s","t","C","o","d","e",">">>
CloseTestCode == <<"<","/","t","e","s","t","C","o","d","e",">">>
OpenExample == <<"<","e","x","a","m","p","l","e",">">>
CloseExample == <<"<","/","e","x","a","m","p","l","e",">">>
OpenExamples == <<"<","e","x","a","m","p","l","e","s",">">>
CloseExamples == <<"<","/","e","x","a","m","p","l","e","s",">">>
OpenReply == <<"<","r","e","p","l","y",">">>
CloseReply == <<"<","/","r","e","p","l","y",">">>

ComplexityWord == <<"c","o","m","p","l","e","x","i","t","y">>
ComplexityLevels == << <<"l","o","w">>, <<"m","e","d","i","u","m">>, <<"h","i","g","h">> >>

\* hookTypes, in the order of the array literal
hookTypes ==
    << <<"b","e","f","o","r","e"," ","s","w","a","p">>,
       <<"a","f","t","e","r"," ","s","w","a","p">>,
       <<"b","e","f","o","r","e"," ","i","n","i","t","i","a","l","i","z","e">>,
       <<"a","f","t","e","r"," ","i","n","i","t","i","a","l","i","z","e">>,
       <<"b","e","f","o","r","e"," ","m","o","d","i","f","y"," ","p","o","s","i","t","i","o","n">>,
       <<"a","f","t","e","r"," ","m","o","d","i","f","y"," ","p","o","s","i","t","i","o","n">> >>

Custom == <<"c","u","s","t","o","m">>

----------------------------------------------------------------------------
(* JsonStreamHandler.extractTagsFromContent, streamUtils.ts:68-178 *)

NoMatch == [matched |-> FALSE, group |-> <<>>, start |-> 0, end |-> 0]

\* RegexMatch with a region that lacks its closing marker running to the end
\* of the content
RegexMatchOpenEnded(content, open, close) ==
    Bind(IndexOf(content, open, 1), LAMBDA o :
        IF o = 0 THEN NoMatch
        ELSE Bind(IndexOf(content, close, o + Len(open)), LAMBDA c :
            [matched |-> TRUE,
             group   |-> SubSeq(content, o + Len(open),
                                IF c = 0 THEN Len(content) ELSE c - 1),
             start   |-> o,
             end     |-> IF c = 0 THEN Len(content) ELSE c + Len(close) - 1]))

\* content.match(/<open>([\s\S]*?)<\/close>/): the leftmost open marker and
\* the first close marker after it; group is the text between them, start
\* and end delimit the whole match
RegexMatch(content, open, close) ==
    Bind(IndexOf(content, open, 1), LAMBDA o :
        IF o = 0 THEN NoMatch
        ELSE Bind(IndexOf(content, close, o + Len(open)), LAMBDA c :
            IF c = 0 THEN NoMatch
            ELSE [matched |-> TRUE,
                  group   |-> SubSeq(content, o + Len(open), c - 1),
                  start   |-> o,
                  end     |-> c + Len(close) - 1]))

\* `m && m[1]`: a match whose group is a non-empty string
Truthy(m) == m.matched /\ m.group # <<>>

RECURSIVE ExecAll(_, _, _, _)
\* the while loop over regex.exec for /<open>([\s\S]*?)<\/close>/g, from
\* lastIndex `from`: the trimmed groups of the successive matches, a match
\* with an empty group pushing nothing
ExecAll(content, open, close, from) ==
    Bind(RegexMatch(SubSeq(content, from, Len(content)), open, close), LAMBDA m :
        IF ~m.matched THEN <<>>
        ELSE (IF m.group # <<>> THEN <<Trim(m.group)>> ELSE <<>>)
             \o Bind(from + m.end, LAMBDA next : ExecAll(content, open, close, next)))

RECURSIVE ExecFeatures(_, _)
\* the while loop over featureRegex.exec,
\* /<feature>[\s\S]*?<name>([\s\S]*?)<\/name>[\s\S]*?<\/feature>/g:
\* every lazy quantifier stops at the first marker after which the rest of
\* the pattern can still match, which is the first occurrence of the marker
ExecFeatures(content, from) ==
    Bind(IndexOf(content, OpenFeature, from), LAMBDA f :
    Bind(IF f = 0 THEN 0 ELSE IndexOf(content, OpenName, f + Len(OpenFeature)), LAMBDA n :
    Bind(IF n = 0 THEN 0 ELSE IndexOf(content, CloseName, n + Len(OpenName)), LAMBDA nc :
    Bind(IF nc = 0 THEN 0 ELSE IndexOf(content, CloseFeature, nc + Len(CloseName)), LAMBDA fc :
        IF fc = 0 THEN <<>>
        ELSE Bind(SubSeq(content, n + Len(OpenName), nc - 1), LAMBDA g :
                (IF g # <<>> THEN <<Trim(g)>> ELSE <<>>)
                \o ExecFeatures(content, fc + Len(CloseFeature)))))))

\* the level after position p once [:\s]* has taken every colon and space
LevelAt(lc, p) ==
    Bind(Min({ q \in p .. Len(lc) + 1 :
                 /\ \A r \in p .. q - 1 : lc[r] = ":" \/ IsSpace(lc[r])
                 /\ q = Len(lc) + 1 \/ ~(lc[q] = ":" \/ IsSpace(lc[q])) }), LAMBDA q :
    Bind({ i \in 1 .. Len(ComplexityLevels) :
             /\ q + Len(ComplexityLevels[i]) - 1 <= Len(lc)
             /\ SubSeq(lc, q, q + Len(ComplexityLevels[i]) - 1) = ComplexityLevels[i] }, LAMBDA lv :
        IF lv = {} THEN <<>> ELSE ComplexityLevels[Min(lv)]))

\* content.toLowerCase().match(/complexity[:\s]*(low|medium|high)/)[1],
\* <<>> when there is no match
ComplexityMatch(content) ==
    Bind(ToLowerCase(content), LAMBDA lc :
    Bind({ p \in 1 .. Len(lc) - Len(ComplexityWord) + 1 :
             /\ lc[p] = ComplexityWord[1]
             /\ SubSeq(lc, p, p + Len(ComplexityWord) - 1) = ComplexityWord
             /\ LevelAt(lc, p + Len(ComplexityWord)) # <<>> }, LAMBDA hits :
        IF hits = {} THEN <<>> ELSE LevelAt(lc, Min(hits) + Len(ComplexityWord))))

\* the hookTypes loop without its includes test: the first type is taken
HookTypePhraseUnchecked(content) == hookTypes[1]

\* the for loop over hookTypes: the first phrase the lower-cased content
\* includes, <<>> when it includes none
HookTypePhrase(content) ==
    Bind(ToLowerCase(content), LAMBDA lc :
    Bind({ i \in 1 .. Len(hookTypes) : Includes(lc, hookTypes[i]) }, LAMBDA hits :
        IF hits = {} THEN <<>> ELSE hookTypes[Min(hits)]))

Null == [isNull |-> TRUE, value |-> <<>>]
Some(v) == [isNull |-> FALSE, value |-> v]

EmptyObject == [k \in {} |-> <<>>]

\* { ...a, ...b }
Spread(a, b) ==
    [k \in DOMAIN a \cup DOMAIN b |-> IF k \in DOMAIN b THEN b[k] ELSE a[k]]

\* the object minus key k (delete obj[k])
Delete(obj, key) == [k \in DOMAIN obj \ {key} |-> obj[k]]

ExtractTagsFromContentWithoutReply(content) ==
    LET nameMatch        == RegexMatch(content, OpenName, CloseName)
        descriptionMatch == RegexMatch(content, OpenDescription, CloseDescription)
        codeMatch        == RegexMatch(content, OpenHookCode, CloseHookCode)
        gasMatch         == RegexMatch(content, OpenGasEstimate, CloseGasEstimate)
        complexityMatch  == ComplexityMatch(content)
        functionalities  == ExecFeatures(content, 1)
        testCodeMatch    == RegexMatch(content, OpenTestCode, CloseTestCode)
        examples         == ExecAll(content, OpenExample, CloseExample, 1)
        phrase           == HookTypePhrase(content)
        keys == (IF Truthy(nameMatch) THEN {"name"} ELSE {})
           \cup (IF Truthy(descriptionMatch) THEN {"description"} ELSE {})
           \cup (IF Truthy(codeMatch) THEN {"code"} ELSE {})
           \cup (IF Truthy(gasMatch) THEN {"gasEstimate"} ELSE {})
           \cup (IF complexityMatch # <<>> THEN {"complexity"} ELSE {})
           \cup (IF Len(functionalities) > 0 THEN {"functionalities"} ELSE {})
           \cup (IF Truthy(testCodeMatch) THEN {"testCode"} ELSE {})
           \cup (IF Len(examples) > 0 THEN {"examples"} ELSE {})
        \* foundAnyData once the hookTypes loop has run
        found == keys # {} \/ phrase # <<>>
        all   == keys \cup (IF found THEN {"hookType"} ELSE {})
    IN  [k \in all |->
            CASE k = "name"            -> Trim(nameMatch.group)
              [] k = "description"     -> Trim(descriptionMatch.group)
              [] k = "code"            -> Trim(codeMatch.group)
              [] k = "gasEstimate"     -> ParseInt(Trim(gasMatch.group))
              [] k = "complexity"      -> complexityMatch
              [] k = "functionalities" -> functionalities
              [] k = "testCode"        -> Trim(testCodeMatch.group)
              [] k = "examples"        -> examples
              [] k = "hookType"        -> IF phrase # <<>> THEN phrase ELSE Custom]

\* the hookData object, or null when foundAnyData stayed false
extractTagsFromContent(content) ==
    Bind(ExtractTagsFromContentWithoutReply(content), LAMBDA hookData :
    Bind(RegexMatch(content, OpenReply, CloseReply), LAMBDA replyMatch :
    Bind(IF Truthy(replyMatch)
         THEN Spread(hookData, [k \in {"_replyContent"} |-> Trim(replyMatch.group)])
         ELSE hookData, LAMBDA withReply :
        IF DOMAIN withReply = {} THEN Null ELSE Some(withReply))))

----------------------------------------------------------------------------
(* JsonStreamHandler.processFragment and getFinalData *)

\* processFragment with the tags extracted from the new fragment alone
processFragmentOfFragmentAlone(raw, last, contentFragment) ==
    Bind(raw \o contentFragment, LAMBDA newRaw :
    Bind(extractTagsFromContent(contentFragment), LAMBDA hookData :
        [rawContent     |-> newRaw,
         lastParsedData |-> IF ~hookData.isNull THEN Spread(last, hookData.value) ELSE last]))

\* streamUtils.ts:23-44: the handler's fields after processFragment
processFragment(raw, last, contentFragment) ==
    Bind(raw \o contentFragment, LAMBDA newRaw :
    Bind(extractTagsFromContent(newRaw), LAMBDA hookData :
        [rawContent     |-> newRaw,
         lastParsedData |-> IF ~hookData.isNull THEN Spread(last, hookData.value) ELSE last]))

\* a string-valued key that is present and not the empty string
TruthyKey(obj, key) == key \in DOMAIN obj /\ obj[key] # <<>>

\* streamUtils.ts:183-193
getFinalData(last) ==
    LET d1 == IF TruthyKey(last, "_rawContent") THEN Delete(last, "_rawContent") ELSE last
    IN  IF TruthyKey(d1, "_replyContent") THEN Delete(d1, "_replyContent") ELSE d1

----------------------------------------------------------------------------
(* A stand-alone JsonStreamHandler session: a complete text delivered in   *)
(* fragments cut at arbitrary characters, then getFinalData.               *)

TxtA == <<"A">>
TxtB == <<"B">>
TxtHiThere == <<"H","i"," ","t","h","e","r","e">>
TxtContractA == <<"c","o","n","t","r","a","c","t"," ","A","{","}">>
TxtFeeHook == <<"F","e","e"," ","H","o","o","k">>
TxtPartial == <<"p","a","r","t","i","a","l"," ","t","e","x","t">>
TxtAfterBefore == <<" ","A","f","t","e","r"," ","S","w","a","p",",",
                    " ","b","e","f","o","r","e"," ","s","w","a","p">>

Example(x) == OpenExample \o x \o CloseExample

\* spec.md section 8, scenario 8
PayloadScenario ==
    OpenReply \o TxtHiThere \o CloseReply \o OpenHookCode \o TxtContractA \o CloseHookCode
\* two completed regions of one scalar tag
PayloadTwoNames ==
    OpenName \o TxtA \o CloseName \o OpenName \o TxtB \o CloseName
\* an examples block of two entries, then a larger one repeating them
PayloadTwoBlocks ==
    OpenExamples \o Example(<<"a">>) \o Example(<<"b">>) \o CloseExamples
    \o OpenExamples \o Example(<<"a">>) \o Example(<<"b">>) \o Example(<<"c">>) \o CloseExamples
\* a buffer ending in an unterminated description
PayloadUnterminated ==
    OpenName \o TxtFeeHook \o CloseName \o OpenDescription \o TxtPartial
\* a reply region whose trimmed content is empty
PayloadBlankReply ==
    OpenName \o TxtA \o CloseName \o OpenReply \o <<" ">> \o CloseReply
\* code first, then two hook-type phrases, the later one earlier in hookTypes
PayloadHookTypes ==
    OpenHookCode \o <<"x">> \o CloseHookCode \o TxtAfterBefore

\* a gas estimate with a unit, a complexity line and a feature
PayloadDetails ==
    OpenGasEstimate \o <<"2","1","k">> \o CloseGasEstimate
    \o <<"C","o","m","p","l","e","x","i","t","y",":"," ","H","i","g","h">>
    \o OpenFeature \o OpenName \o <<"f">> \o CloseName \o CloseFeature

\* a completed gasEstimate region whose content is not a number
PayloadBadGas ==
    OpenName \o TxtA \o CloseName
    \o OpenGasEstimate \o <<"l","o","t","s">> \o CloseGasEstimate

\* a feature without a name, then a feature with one
PayloadFeatures ==
    OpenFeature \o <<"g">> \o CloseFeature
    \o OpenFeature \o OpenName \o <<"f">> \o CloseName \o CloseFeature

HandlerPayloads ==
    { PayloadScenario, PayloadTwoNames, PayloadTwoBlocks, PayloadUnterminated,
      PayloadBlankReply, PayloadHookTypes, PayloadDetails, PayloadBadGas,
      PayloadFeatures }

\* getEmptyUniswapHookData(), streamUtils.ts:379-390
getEmptyUniswapHookData ==
    [k \in {"name", "description", "code", "hookType", "functionalities",
            "dependencies", "complexity", "version"} |->
        CASE k = "hookType"   -> Custom
          [] k = "complexity" -> ComplexityLevels[2]
          [] k = "version"    -> <<"1", ".", "0", ".", "0">>
          [] OTHER            -> <<>>]

\* the components as constructed (useState and useRef initial values)
ComponentsInit ==
    /\ bufferRef = <<>>
    /\ accumulatedReplyRef = <<>>
    /\ parsedContent = [reply |-> <<>>, hookCode |-> <<>>]
    /\ isStreamingReply = FALSE
    /\ streamError = "null"
    /\ finalReply = <<>>
    /\ nError = 0
    /\ nDone = 0
    /\ replyReceived = <<>>
    /\ streamingChanges = <<>>
    /\ errorsReceived = <<>>
    /\ assistantMessages = <<>>
    /\ streamingHookCode = EmptyObject
    /\ closureHookCode = EmptyObject
    /\ jsonData = getEmptyUniswapHookData
    /\ isStreaming = FALSE
    /\ isStreamingHookCode = FALSE
    /\ streamingComplete = FALSE
    /\ pageError = "null"
    /\ handlerRef = FALSE
    /\ olderLoops = <<>>

\* no chunk has been given to processHookCodeChunk
FallbackIdle == parseOutcome = "none"

\* processStreamEvents' reader before its first read (ChatComponent.tsx:377-379)
ReaderIdle ==
    /\ sseBuffer = <<>>
    /\ sseEvents = <<>>

\* JavaScript values of the server: null, undefined, an object, a string
Absent == [kind |-> "null", value |-> <<>>]
Undefined == [kind |-> "undefined", value |-> <<>>]
Obj(fields) == [kind |-> "object", value |-> fields]
Str(chars) == [kind |-> "string", value |-> chars]

\* the server before a request, with nothing stored for the session
ServerIdle ==
    /\ spc = "idle"
    /\ route = "none"
    /\ modelChunks = <<>>
    /\ modelFails = FALSE
    /\ frames = <<>>
    /\ resStatus = 0
    /\ resEnded = FALSE
    /\ fullReply = <<>>
    /\ srvHookData = Absent
    /\ messages = <<>>
    /\ userMessage = <<>>
    /\ messageHistory = <<>>
    /\ hookCodes = Absent
    /\ sessionHookCode = Absent

\* no createHookCode call, no conversation, no model manager
BackIdle ==
    /\ hookRows = {}
    /\ upsertCalls = <<>>
    /\ sessionId = "null"
    /\ userMsgCount = 0
    /\ hasAutoSubmittedRef = FALSE
    /\ autoTimers = 0
    /\ autoSubmissions = 0
    /\ llmInstance = Null
    /\ llmReturned = Null
    /\ llmBuilt = 0
    /\ llmCallsLeft = 0

OffstageInit ==
    /\ FallbackIdle
    /\ ReaderIdle
    /\ ServerIdle
    /\ BackIdle
    /\ requestsLeft = 0

HandlerInit ==
    /\ ComponentsInit
    /\ OffstageInit
    /\ nextStreams = <<>>
    /\ stopLeft = FALSE
    /\ cpc = "none"
    /\ cuts = {}
    /\ controlLeft = 0
    /\ payload \in HandlerPayloads
    /\ rest = payload
    /\ rawContent = <<>>
    /\ lastParsedData = EmptyObject
    /\ finalData = EmptyObject
    /\ hpc = "feeding"
    /\ split = FALSE

\* the longest fragment short of "all the rest" (a bound of the model: the
\* transport cuts fragments anywhere)
MaxFragmentLen == 16

FragmentLengths(text) ==
    { k \in 1 .. Len(text) : k <= MaxFragmentLen \/ k = Len(text) }

\* the caller hands the next fragment to processFragment
ProcessFragment ==
    /\ hpc = "feeding"
    /\ \E k \in FragmentLengths(rest) :
        \E h \in {processFragment(rawContent, lastParsedData, SubSeq(rest, 1, k))} :
              /\ rawContent' = h.rawContent
              /\ lastParsedData' = h.lastParsedData
              /\ rest' = SubSeq(rest, k + 1, Len(rest))
    /\ split' = (rawContent # <<>>)
    /\ UNCHANGED <<finalData, payload, hpc>>
    /\ UNCHANGED <<chatVars, transportVars, callVars, pageVars>>
    /\ UNCHANGED sessionVars
    /\ UNCHANGED offstageVars

\* the caller ends the session, at the end of the text or before it
GetFinalData ==
    /\ hpc = "feeding"
    /\ finalData' = getFinalData(lastParsedData)
    /\ hpc' = "final"
    /\ UNCHANGED <<rawContent, lastParsedData, payload, rest, split>>
    /\ UNCHANGED <<chatVars, transportVars, callVars, pageVars>>
    /\ UNCHANGED sessionVars
    /\ UNCHANGED offstageVars

HandlerNext == ProcessFragment \/ GetFinalData

SpecHandler == HandlerInit /\ [][HandlerNext]_vars

\* processFragment called on a handler whose getFinalData has been called
\* (streamUtils.ts:23-44: the handler keeps no mark of having been
\* finalized, so the call runs as any other)
ProcessFragmentAfterFinal ==
    /\ hpc \in {"final", "late"}
    /\ \E k \in FragmentLengths(rest) :
        \E h \in {processFragment(rawContent, lastParsedData, SubSeq(rest, 1, k))} :
              /\ rawContent' = h.rawContent
              /\ lastParsedData' = h.lastParsedData
              /\ rest' = SubSeq(rest, k + 1, Len(rest))
    /\ split' = (rawContent # <<>>)
    /\ hpc' = "late"
    /\ UNCHANGED <<finalData, payload>>
    /\ UNCHANGED <<chatVars, transportVars, callVars, pageVars>>
    /\ UNCHANGED sessionVars
    /\ UNCHANGED offstageVars

\* getFinalData called again (streamUtils.ts:183-193)
GetFinalDataAgain ==
    /\ hpc \in {"final", "late"}
    /\ finalData' = getFinalData(lastParsedData)
    /\ hpc' = "late"
    /\ UNCHANGED <<rawContent, lastParsedData, payload, rest, split>>
    /\ UNCHANGED <<chatVars, transportVars, callVars, pageVars>>
    /\ UNCHANGED sessionVars
    /\ UNCHANGED offstageVars

HandlerCallsNext ==
    \/ HandlerNext
    \/ ProcessFragmentAfterFinal
    \/ GetFinalDataAgain

\* a handler whose caller keeps no order of calls
SpecHandlerCalls == HandlerInit /\ [][HandlerCallsNext]_vars

----------------------------------------------------------------------------
(* HookCreationPage: the consumer of ChatComponent's callbacks *)

\* HookCreationPage.tsx:56-128, on the page's fields pg
handleHookCodeData(content, pg) ==
    LET hasHookCodeTag == Includes(content, OpenHookCode) /\ Includes(content, CloseHookCode)
        hookCodeMatch  == RegexMatch(content, OpenHookCode, CloseHookCode)
        nameMatch      == RegexMatch(content, OpenName, CloseName)
        descMatch      == RegexMatch(content, OpenDescription, CloseDescription)
        gasMatch       == RegexMatch(content, OpenGasEstimate, CloseGasEstimate)
        gasValue       == ParseInt(Trim(gasMatch.group))
        keys == {"code"}
           \cup (IF Truthy(nameMatch) THEN {"name"} ELSE {})
           \cup (IF Truthy(descMatch) THEN {"description"} ELSE {})
           \cup (IF Truthy(gasMatch) /\ gasValue # NaN THEN {"gasEstimate"} ELSE {})
        tagged == [k \in keys |->
                     CASE k = "code"        -> Trim(hookCodeMatch.group)
                       [] k = "name"        -> Trim(nameMatch.group)
                       [] k = "description" -> Trim(descMatch.group)
                       [] k = "gasEstimate" -> gasValue]
        \* the JSON path: a handler is made when there is none
        h == processFragment(IF pg.handlerRef THEN pg.rawContent ELSE <<>>,
                             IF pg.handlerRef THEN pg.lastParsedData ELSE EmptyObject,
                             content)
    IN  IF hasHookCodeTag /\ Truthy(hookCodeMatch)
        THEN [pg EXCEPT !.streamingHookCode = tagged,
                        !.isStreamingHookCode = TRUE,
                        !.jsonData = Spread(getEmptyUniswapHookData, tagged)]
        ELSE [pg EXCEPT !.handlerRef = TRUE,
                        !.rawContent = h.rawContent,
                        !.lastParsedData = h.lastParsedData,
                        !.streamingHookCode =
                            Spread(h.lastParsedData, [k \in {"_rawContent"} |-> h.rawContent]),
                        !.isStreamingHookCode = TRUE]

RECURSIVE DeliverHookCode(_, _)
\* onReplyReceived called for each content of sent, in order
DeliverHookCode(sent, pg) ==
    IF sent = <<>> THEN pg
    ELSE Bind(handleHookCodeData(Head(sent), pg), LAMBDA pg1 :
             DeliverHookCode(Tail(sent), pg1))

Page ==
    [streamingHookCode |-> streamingHookCode, isStreamingHookCode |-> isStreamingHookCode,
     jsonData |-> jsonData, handlerRef |-> handlerRef,
     rawContent |-> rawContent, lastParsedData |-> lastParsedData]

\* HookCreationPage.tsx:131-154, called from a render in which
\* streamingHookCode was seenHookCode
handleStreamingChangeOf(seenHookCode, isStreamingArg) ==
    /\ isStreaming' = isStreamingArg
    /\ streamingComplete' = ~isStreamingArg
    /\ streamingHookCode' = IF isStreamingArg THEN EmptyObject ELSE streamingHookCode
    /\ jsonData' = IF ~isStreamingArg /\ DOMAIN seenHookCode # {} /\ handlerRef
                   THEN getFinalData(lastParsedData)
                   ELSE jsonData

\* HookCreationPage.tsx:131-154.  streamingHookCode is read from the closure
\* of the render in which the running submission started.
handleStreamingChange(isStreamingArg) ==
    handleStreamingChangeOf(closureHookCode, isStreamingArg)

\* HookCreationPage.tsx:163-165: the hook data the preview panel is given
hookDataToRender ==
    IF isStreamingHookCode /\ DOMAIN streamingHookCode # {} THEN streamingHookCode
    ELSE IF Cardinality(DOMAIN jsonData) > 1 THEN jsonData ELSE streamingHookCode

\* HookCreationPage.tsx:42-53, the effect on [isStreaming]
HandlerLifecycleEffect ==
    /\ cpc # "none"
    /\ \/ /\ isStreaming /\ ~handlerRef
          /\ handlerRef' = TRUE
          /\ rawContent' = <<>>
          /\ lastParsedData' = EmptyObject
          /\ streamingComplete' = FALSE
       \/ /\ ~isStreaming /\ handlerRef
          /\ handlerRef' = FALSE
          /\ UNCHANGED <<rawContent, lastParsedData, streamingComplete>>
    /\ UNCHANGED <<finalData, driverVars, chatVars, transportVars, callVars,
                   streamingHookCode, closureHookCode, jsonData, isStreaming,
                   isStreamingHookCode, pageError>>
    /\ UNCHANGED sessionVars
    /\ UNCHANGED offstageVars

----------------------------------------------------------------------------
(* ChatComponent: the tag buffer and its drain cycle.  The drain works on  *)
(* st = [buffer, reply, replySet, hookCode, sent]: bufferRef.current,      *)
(* accumulatedReplyRef.current, whether setParsedContent set reply,        *)
(* parsedContent.hookCode, and the contents passed to onReplyReceived.     *)

RECURSIVE processBuffer(_)
RECURSIVE appendTagContentToReply(_, _, _, _)
RECURSIVE extractHookCode(_, _, _)

\* RemoveRegion that blanks the region instead of cutting it out
RemoveRegionBlanking(buffer, o, endIdx, closeTag) ==
    [i \in 1 .. Len(buffer) |->
        IF i >= o /\ i < endIdx + Len(closeTag) THEN " " ELSE buffer[i]]

\* the buffer without the region from the opening marker at o to the end of
\* the closing marker at endIdx
RemoveRegion(buffer, o, endIdx, closeTag) ==
    SubSeq(buffer, 1, o - 1) \o SubSeq(buffer, endIdx + Len(closeTag), Len(buffer))

\* the region a handler looks for: the first opening marker (o), the first
\* closing marker after it (endIdx) and the trimmed text between them; 0 for
\* a marker that is not there
FindRegion(buffer, openTag, closeTag) ==
    Bind(IndexOf(buffer, openTag, 1), LAMBDA o :
    Bind(IF o = 0 THEN 0 ELSE IndexOf(buffer, closeTag, o + Len(openTag)), LAMBDA endIdx :
        [o |-> o, endIdx |-> endIdx,
         content |-> IF o = 0 \/ endIdx = 0 THEN <<>>
                     ELSE Trim(SubSeq(buffer, o + Len(openTag), endIdx - 1))]))

\* appendTagContentToReply that does not run the drain again after removing
\* a region
appendTagContentToReplyOnce(st, openTag, closeTag, prefix) ==
    Bind(st, LAMBDA s0 :
    Bind(FindRegion(s0.buffer, openTag, closeTag), LAMBDA m :
        IF m.o # 0 /\ m.endIdx # 0
        THEN [s0 EXCEPT !.reply    = IF m.content # <<>>
                                     THEN @ \o prefix \o m.content ELSE @,
                        !.replySet = @ \/ m.content # <<>>,
                        !.buffer   = RemoveRegion(@, m.o, m.endIdx, closeTag)]
        ELSE s0))

\* ChatComponent.tsx:152-182
appendTagContentToReply(st, openTag, closeTag, prefix) ==
    Bind(st, LAMBDA s0 :
    Bind(FindRegion(s0.buffer, openTag, closeTag), LAMBDA m :
        IF m.o # 0 /\ m.endIdx # 0
        THEN Bind([s0 EXCEPT !.reply    = IF m.content # <<>>
                                          THEN @ \o prefix \o m.content ELSE @,
                             !.replySet = @ \/ m.content # <<>>,
                             !.buffer   = RemoveRegion(@, m.o, m.endIdx, closeTag)],
                  LAMBDA s1 : processBuffer(s1))
        ELSE s0))

\* extractHookCode that does not run the drain again after removing a region
extractHookCodeOnce(st, openTag, closeTag) ==
    Bind(st, LAMBDA s0 :
    Bind(FindRegion(s0.buffer, openTag, closeTag), LAMBDA m :
        IF m.o # 0 /\ m.endIdx # 0
        THEN [s0 EXCEPT !.hookCode = IF m.content # <<>> THEN m.content ELSE @,
                        !.sent     = IF m.content # <<>>
                                     THEN Append(@, OpenHookCode \o m.content \o CloseHookCode)
                                     ELSE @,
                        !.buffer   = RemoveRegion(@, m.o, m.endIdx, closeTag)]
        ELSE s0))

\* extractHookCode that notifies the parent only of the first code of a session
extractHookCodeFirstOnly(st, openTag, closeTag) ==
    Bind(st, LAMBDA s0 :
    Bind(FindRegion(s0.buffer, openTag, closeTag), LAMBDA m :
        IF m.o # 0 /\ m.endIdx # 0
        THEN Bind([s0 EXCEPT !.hookCode = IF m.content # <<>> THEN m.content ELSE @,
                             !.sent     = IF m.content # <<>> /\ s0.hookCode = <<>>
                                          THEN Append(@, OpenHookCode \o m.content \o CloseHookCode)
                                          ELSE @,
                             !.buffer   = RemoveRegion(@, m.o, m.endIdx, closeTag)],
                  LAMBDA s1 : processBuffer(s1))
        ELSE s0))

\* ChatComponent.tsx:185-218
extractHookCode(st, openTag, closeTag) ==
    Bind(st, LAMBDA s0 :
    Bind(FindRegion(s0.buffer, openTag, closeTag), LAMBDA m :
        IF m.o # 0 /\ m.endIdx # 0
        THEN Bind([s0 EXCEPT !.hookCode = IF m.content # <<>> THEN m.content ELSE @,
                             !.sent     = IF m.content # <<>>
                                          THEN Append(@, OpenHookCode \o m.content \o CloseHookCode)
                                          ELSE @,
                             !.buffer   = RemoveRegion(@, m.o, m.endIdx, closeTag)],
                  LAMBDA s1 : processBuffer(s1))
        ELSE s0))

\* ChatComponent.tsx:134-149
processBuffer(st) ==
    Bind(appendTagContentToReply(st, OpenReply, CloseReply, <<>>), LAMBDA s1 :
        extractHookCode(s1, OpenHookCode, CloseHookCode))

\* processTextWithTypingEffect that replaces the buffer by the new text
processTextReplacingBuffer(text) ==
    processBuffer([buffer   |-> text,
                   reply    |-> accumulatedReplyRef,
                   replySet |-> FALSE,
                   hookCode |-> parsedContent.hookCode,
                   sent     |-> <<>>])

\* ChatComponent.tsx:117-131: the drain state after the text is appended
\* (streamingReply and isTyping are display state no handler reads back)
processTextWithTypingEffect(text) ==
    processBuffer([buffer   |-> bufferRef \o text,
                   reply    |-> accumulatedReplyRef,
                   replySet |-> FALSE,
                   hookCode |-> parsedContent.hookCode,
                   sent     |-> <<>>])

----------------------------------------------------------------------------
(* ChatComponent: the state handlers *)

\* resetStreamingState that resets everything when streaming ends too
resetStreamingStateAll(seenHookCode, isStreamingArg) ==
    /\ bufferRef' = <<>>
    /\ accumulatedReplyRef' = <<>>
    /\ parsedContent' = [reply |-> <<>>, hookCode |-> <<>>]
    /\ isStreamingReply' = isStreamingArg
    /\ streamError' = "null"
    /\ streamingChanges' = Append(streamingChanges, isStreamingArg)
    /\ handleStreamingChangeOf(seenHookCode, isStreamingArg)

\* ChatComponent.tsx:86-107, with the parent's onStreamingChange, called
\* from a render in which the page's streamingHookCode was seenHookCode
resetStreamingStateOf(seenHookCode, isStreamingArg) ==
    /\ bufferRef' = <<>>
    /\ accumulatedReplyRef' = IF isStreamingArg THEN <<>> ELSE accumulatedReplyRef
    /\ parsedContent' = IF isStreamingArg THEN [reply |-> <<>>, hookCode |-> <<>>]
                        ELSE parsedContent
    /\ isStreamingReply' = isStreamingArg
    /\ streamError' = "null"
    /\ streamingChanges' = Append(streamingChanges, isStreamingArg)
    /\ handleStreamingChangeOf(seenHookCode, isStreamingArg)

\* ChatComponent.tsx:86-107, in the running submission's closure
resetStreamingState(isStreamingArg) ==
    resetStreamingStateOf(closureHookCode, isStreamingArg)

\* ChatComponent.tsx:110-114, with the parent's onError
\* (HookCreationPage.tsx:157-160); setStreamError(errorMessage) is overwritten
\* by resetStreamingState's setStreamError(null) in the same batch
handleStreamError(errorMessage) ==
    /\ errorsReceived' = Append(errorsReceived, errorMessage)
    /\ pageError' = errorMessage
    /\ resetStreamingState(FALSE)

----------------------------------------------------------------------------
(* One chat session: a submission, the frames of the response, the end of  *)
(* the body.  A step is the code run between two awaits.                   *)

\* reply text between two reply regions, and a code region that is blank
PayloadTwoReplies ==
    OpenReply \o <<"a">> \o CloseReply \o <<" ", "t", " ">>
    \o OpenReply \o <<" ", "b">> \o CloseReply \o OpenHookCode \o <<" ">> \o CloseHookCode
\* the code region first, two code regions
PayloadCodeFirst ==
    OpenHookCode \o <<"x">> \o CloseHookCode \o OpenReply \o <<"y">> \o CloseReply
    \o OpenHookCode \o <<"z">> \o CloseHookCode
\* a reply region that exists only once the code region inside its opening
\* marker has been removed
PayloadJoined ==
    <<"<","r","e","p">> \o OpenHookCode \o <<"x">> \o CloseHookCode
    \o <<"l","y",">">> \o <<"y">> \o CloseReply
\* a code region inside a reply region
PayloadNested ==
    OpenReply \o <<"a">> \o OpenHookCode \o <<"x">> \o CloseHookCode \o <<"b">> \o CloseReply

\* a code region that holds a name region, then a second code region
PayloadNamedCode ==
    OpenHookCode \o OpenName \o <<"N">> \o CloseName \o <<"x">> \o CloseHookCode
    \o OpenHookCode \o <<"z">> \o CloseHookCode

\* the texts in the format the system prompt asks for: reply and hookCode
\* regions side by side
FlatPayloads == { PayloadScenario, PayloadTwoReplies, PayloadCodeFirst }

ChatPayloads == FlatPayloads \cup { PayloadJoined, PayloadNested, PayloadNamedCode }

\* the fragments of spec.md section 8, scenario 8, end after these positions
ScenarioCuts == { Len(OpenReply) + 2,
                  Len(OpenReply \o TxtHiThere \o CloseReply \o OpenHookCode) + 10,
                  Len(PayloadScenario) }

\* error frames and early [DONE] frames in one stream (a bound of the model)
MaxControlFrames == 1

\* the positions of a text right after a marker, and its end
MarkerCuts(t) == { p \in 1 .. Len(t) : t[p] = ">" }

\* the streams, each ended by the server's [DONE]: a text cut anywhere; a
\* text cut after markers, or the scenario's fragments, with error and early
\* [DONE] frames in between
ChatStreams ==
    { [text |-> t, cuts |-> 1 .. Len(t), control |-> 0] : t \in ChatPayloads }
    \cup { [text |-> t, cuts |-> MarkerCuts(t), control |-> MaxControlFrames] :
               t \in ChatPayloads }
    \cup { [text |-> PayloadScenario, cuts |-> ScenarioCuts, control |-> MaxControlFrames] }

\* the content of the error frames of HooksController.generateHookCode
ErrorContents == { "Failed to generate hook code. Please try again." }

ChatInit ==
    /\ ComponentsInit
    /\ OffstageInit
    /\ nextStreams = <<>>
    /\ stopLeft = FALSE
    /\ cpc = "idle"
    /\ hpc = "embedded"
    /\ rawContent = <<>>
    /\ lastParsedData = EmptyObject
    /\ finalData = EmptyObject
    /\ split = FALSE
    /\ \E s \in ChatStreams :
          /\ payload = s.text
          /\ rest = s.text
          /\ cuts = s.cuts
          /\ controlLeft = s.control

\* handleCustomSubmit up to `await fetch` (ChatComponent.tsx:520-571)
Submit ==
    /\ cpc = "idle"
    /\ closureHookCode' = streamingHookCode
    /\ resetStreamingState(TRUE)
    /\ cpc' = "fetching"
    /\ UNCHANGED <<handlerVars, driverVars, finalReply, transportVars,
                   replyReceived, errorsReceived, assistantMessages,
                   isStreamingHookCode, pageError, handlerRef>>
    /\ UNCHANGED sessionVars
    /\ UNCHANGED offstageVars

\* the response is ok: processStreamEvents up to the first reader.read()
\* (ChatComponent.tsx:366-382)
ResponseArrives ==
    /\ cpc = "fetching"
    /\ accumulatedReplyRef' = <<>>
    /\ finalReply' = <<>>
    /\ cpc' = "reading"
    /\ UNCHANGED <<handlerVars, driverVars, bufferRef, parsedContent, isStreamingReply,
                   streamError, transportVars, callVars, pageVars>>
    /\ UNCHANGED sessionVars
    /\ UNCHANGED offstageVars

\* fetch rejects or the status is not ok: the catch of handleCustomSubmit
\* (ChatComponent.tsx:573-582)
FetchFails ==
    /\ cpc = "fetching"
    /\ handleStreamError("HTTP error! Status: 500")
    /\ cpc' = "ended"
    /\ UNCHANGED <<handlerVars, driverVars, finalReply, transportVars,
                   replyReceived, assistantMessages,
                   closureHookCode, isStreamingHookCode, handlerRef>>
    /\ UNCHANGED sessionVars
    /\ UNCHANGED offstageVars

\* the positions of rest after which the next fragment may end
NextFragmentLengths ==
    { k \in 1 .. Len(rest) : (Len(payload) - Len(rest)) + k \in cuts }

\* an event of type 'data' (ChatComponent.tsx:394-421)
RecvData ==
    /\ cpc = "reading"
    /\ \E k \in NextFragmentLengths :
        \E st \in {processTextWithTypingEffect(SubSeq(rest, 1, k))} :
        \E pg \in {DeliverHookCode(st.sent, Page)} :
          /\ finalReply' = finalReply \o SubSeq(rest, 1, k)
          /\ rest' = SubSeq(rest, k + 1, Len(rest))
          /\ bufferRef' = st.buffer
          /\ accumulatedReplyRef' = st.reply
          /\ parsedContent' = [reply    |-> IF st.replySet THEN st.reply ELSE parsedContent.reply,
                               hookCode |-> st.hookCode]
          /\ replyReceived' = replyReceived \o st.sent
          /\ streamingHookCode' = pg.streamingHookCode
          /\ isStreamingHookCode' = pg.isStreamingHookCode
          /\ jsonData' = pg.jsonData
          /\ handlerRef' = pg.handlerRef
          /\ rawContent' = pg.rawContent
          /\ lastParsedData' = pg.lastParsedData
    /\ isStreamingReply' = TRUE
    /\ split' = (rest # payload)
    /\ UNCHANGED <<finalData, payload, hpc, cpc, streamError, transportVars,
                   streamingChanges, errorsReceived, assistantMessages,
                   closureHookCode, isStreaming, streamingComplete, pageError>>
    /\ UNCHANGED sessionVars
    /\ UNCHANGED offstageVars

\* the [DONE] event (ChatComponent.tsx:399-402): the server's last frame, or
\* an early one
RecvDone ==
    /\ cpc = "reading"
    /\ nDone = 0
    /\ \/ rest = <<>> /\ controlLeft' = controlLeft
       \/ rest # <<>> /\ controlLeft > 0 /\ controlLeft' = controlLeft - 1
    /\ resetStreamingState(FALSE)
    /\ nDone' = nDone + 1
    /\ UNCHANGED <<handlerVars, driverVars, cpc, finalReply, cuts, nError,
                   replyReceived, errorsReceived, assistantMessages,
                   closureHookCode, isStreamingHookCode, pageError, handlerRef>>
    /\ UNCHANGED sessionVars
    /\ UNCHANGED offstageVars

\* an event of type 'error' (ChatComponent.tsx:423-425)
RecvError ==
    /\ cpc = "reading"
    /\ controlLeft > 0
    /\ \E m \in ErrorContents : handleStreamError(m)
    /\ controlLeft' = controlLeft - 1
    /\ nError' = nError + 1
    /\ UNCHANGED <<handlerVars, driverVars, cpc, finalReply, cuts, nDone,
                   replyReceived, assistantMessages,
                   closureHookCode, isStreamingHookCode, handlerRef>>
    /\ UNCHANGED sessionVars
    /\ UNCHANGED offstageVars

\* reader.read() reports done: the end of processStreamEvents
\* (ChatComponent.tsx:384-452)
EndOfStream ==
    /\ cpc = "reading"
    /\ resetStreamingState(FALSE)
    /\ LET finalMessage == IF accumulatedReplyRef # <<>> THEN accumulatedReplyRef
                           ELSE finalReply
       IN  assistantMessages' = IF finalMessage # <<>> /\ Trim(finalMessage) # <<>>
                                THEN Append(assistantMessages, finalMessage)
                                ELSE assistantMessages
    /\ cpc' = "ended"
    /\ UNCHANGED <<handlerVars, driverVars, finalReply, transportVars,
                   replyReceived, errorsReceived,
                   closureHookCode, isStreamingHookCode, pageError, handlerRef>>
    /\ UNCHANGED sessionVars
    /\ UNCHANGED offstageVars

ChatNext ==
    \/ Submit
    \/ ResponseArrives
    \/ FetchFails
    \/ RecvData
    \/ RecvDone
    \/ RecvError
    \/ EndOfStream
    \/ HandlerLifecycleEffect

SpecChat == ChatInit /\ [][ChatNext]_vars

----------------------------------------------------------------------------
(* One ChatComponent over several submissions.  The read loop of a         *)
(* submission is not cancelled by anything the component does, so a loop   *)
(* started by an earlier submission (an element of olderLoops) may still   *)
(* read while a later one runs.                                            *)

\* the positions of a text right after a reply or a hookCode region
RegionCuts(t) ==
    { p \in 1 .. Len(t) :
        \E c \in { CloseReply, CloseHookCode } :
            p >= Len(c) /\ SubSeq(t, p - Len(c) + 1, p) = c }

\* what the user does on one page: the stream answering the first
\* submission, the streams answering the later ones, and whether Stop is
\* pressed once
SessionScripts ==
    { [first |-> [text |-> t, cuts |-> RegionCuts(t), control |-> MaxControlFrames],
       later |-> << [text |-> PayloadScenario, cuts |-> ScenarioCuts, control |-> 0] >>,
       stop  |-> b] :
          t \in { PayloadCodeFirst, PayloadNamedCode },
          b \in BOOLEAN }

SessionsInit ==
    /\ ComponentsInit
    /\ OffstageInit
    /\ cpc = "idle"
    /\ hpc = "embedded"
    /\ rawContent = <<>>
    /\ lastParsedData = EmptyObject
    /\ finalData = EmptyObject
    /\ split = FALSE
    /\ \E s \in SessionScripts :
          /\ payload = s.first.text
          /\ rest = s.first.text
          /\ cuts = s.first.cuts
          /\ controlLeft = s.first.control
          /\ nextStreams = s.later
          /\ stopLeft = s.stop

\* the read loop of the running submission, as an element of olderLoops: the
\* locals of processStreamEvents and the closure it calls its handlers in
RunningLoop ==
    [payload |-> payload, rest |-> rest, cuts |-> cuts, finalReply |-> finalReply,
     seenHookCode |-> closureHookCode, nDone |-> nDone]

\* handleCustomSubmit up to `await fetch` (ChatComponent.tsx:520-571) once
\* more: the form is enabled whenever isStreamingReply is false
Resubmit ==
    /\ cpc \in {"reading", "ended"}
    /\ ~isStreamingReply
    /\ nextStreams # <<>>
    /\ olderLoops' = IF cpc = "reading" THEN Append(olderLoops, RunningLoop)
                     ELSE olderLoops
    /\ payload' = Head(nextStreams).text
    /\ rest' = Head(nextStreams).text
    /\ cuts' = Head(nextStreams).cuts
    /\ controlLeft' = Head(nextStreams).control
    /\ nextStreams' = Tail(nextStreams)
    /\ nError' = 0
    /\ nDone' = 0
    /\ split' = FALSE
    /\ finalReply' = <<>>
    /\ closureHookCode' = streamingHookCode
    /\ resetStreamingState(TRUE)
    /\ cpc' = "fetching"
    /\ UNCHANGED <<handlerVars, hpc, replyReceived, errorsReceived, assistantMessages,
                   isStreamingHookCode, pageError, handlerRef, stopLeft>>
    /\ UNCHANGED offstageVars

\* handleStop (ChatComponent.tsx:514-517): stop() of useChat has no request
\* of its own to abort, and the handlers are those of the current render
HandleStop ==
    /\ cpc \in {"fetching", "reading"}
    /\ isStreamingReply
    /\ stopLeft
    /\ resetStreamingStateOf(streamingHookCode, FALSE)
    /\ stopLeft' = FALSE
    /\ UNCHANGED <<handlerVars, driverVars, cpc, finalReply, transportVars,
                   replyReceived, errorsReceived, assistantMessages,
                   closureHookCode, isStreamingHookCode, pageError, handlerRef,
                   nextStreams, olderLoops>>
    /\ UNCHANGED offstageVars

\* the positions of an older loop's rest after which its next fragment may end
OlderFragmentLengths(L) ==
    { k \in 1 .. Len(L.rest) : (Len(L.payload) - Len(L.rest)) + k \in L.cuts }

\* an event of type 'data' read by an older loop (ChatComponent.tsx:394-421)
OlderRecvData ==
    /\ \E i \in 1 .. Len(olderLoops) :
        \E k \in OlderFragmentLengths(olderLoops[i]) :
        \E st \in {processTextWithTypingEffect(SubSeq(olderLoops[i].rest, 1, k))} :
        \E pg \in {DeliverHookCode(st.sent, Page)} :
          /\ olderLoops' = [olderLoops EXCEPT
                 ![i].finalReply = @ \o SubSeq(olderLoops[i].rest, 1, k),
                 ![i].rest = SubSeq(@, k + 1, Len(@))]
          /\ bufferRef' = st.buffer
          /\ accumulatedReplyRef' = st.reply
          /\ parsedContent' = [reply    |-> IF st.replySet THEN st.reply ELSE parsedContent.reply,
                               hookCode |-> st.hookCode]
          /\ replyReceived' = replyReceived \o st.sent
          /\ streamingHookCode' = pg.streamingHookCode
          /\ isStreamingHookCode' = pg.isStreamingHookCode
          /\ jsonData' = pg.jsonData
          /\ handlerRef' = pg.handlerRef
          /\ rawContent' = pg.rawContent
          /\ lastParsedData' = pg.lastParsedData
    /\ isStreamingReply' = TRUE
    /\ UNCHANGED <<finalData, driverVars, cpc, streamError, finalReply, transportVars,
                   streamingChanges, errorsReceived, assistantMessages,
                   closureHookCode, isStreaming, streamingComplete, pageError,
                   nextStreams, stopLeft>>
    /\ UNCHANGED offstageVars

\* the server's [DONE] event read by an older loop (ChatComponent.tsx:399-402)
OlderRecvDone ==
    /\ \E i \in 1 .. Len(olderLoops) :
          /\ olderLoops[i].rest = <<>>
          /\ olderLoops[i].nDone = 0
          /\ resetStreamingStateOf(olderLoops[i].seenHookCode, FALSE)
          /\ olderLoops' = [olderLoops EXCEPT ![i].nDone = 1]
    /\ UNCHANGED <<handlerVars, driverVars, cpc, finalReply, transportVars,
                   replyReceived, errorsReceived, assistantMessages,
                   closureHookCode, isStreamingHookCode, pageError, handlerRef,
                   nextStreams, stopLeft>>
    /\ UNCHANGED offstageVars

\* reader.read() reports done to an older loop: the end of its
\* processStreamEvents (ChatComponent.tsx:384-452)
OlderEndOfStream ==
    /\ \E i \in 1 .. Len(olderLoops) :
          /\ resetStreamingStateOf(olderLoops[i].seenHookCode, FALSE)
          /\ LET finalMessage == IF accumulatedReplyRef # <<>> THEN accumulatedReplyRef
                                 ELSE olderLoops[i].finalReply
             IN  assistantMessages' = IF finalMessage # <<>> /\ Trim(finalMessage) # <<>>
                                      THEN Append(assistantMessages, finalMessage)
                                      ELSE assistantMessages
          /\ olderLoops' = SubSeq(olderLoops, 1, i - 1)
                           \o SubSeq(olderLoops, i + 1, Len(olderLoops))
    /\ UNCHANGED <<handlerVars, driverVars, cpc, finalReply, transportVars,
                   replyReceived, errorsReceived,
                   closureHookCode, isStreamingHookCode, pageError, handlerRef,
                   nextStreams, stopLeft>>
    /\ UNCHANGED offstageVars

SessionsNext ==
    \/ ChatNext
    \/ Resubmit
    \/ HandleStop
    \/ OlderRecvData
    \/ OlderRecvDone
    \/ OlderEndOfStream

SpecSessions == SessionsInit /\ [][SessionsNext]_vars

----------------------------------------------------------------------------
(* ChatComponent: the automatic submission of the first user message       *)
(* (ChatComponent.tsx:592-633).  customMessages is read through its counts:*)
(* userMsgCount user messages, and one assistant message for every call of *)
(* addAssistantMessage.  The two effects are callbacks React runs after a  *)
(* render; the submission itself runs in a timer 100 ms later.             *)

\* a short reply
PayloadShortReply == OpenReply \o TxtA \o CloseReply

\* the streams the submissions of a conversation get, in order
AutoStreams ==
    << [text |-> PayloadShortReply, cuts |-> {Len(OpenReply), Len(PayloadShortReply)},
        control |-> MaxControlFrames],
       [text |-> PayloadShortReply, cuts |-> {Len(PayloadShortReply)}, control |-> 0],
       [text |-> PayloadShortReply, cuts |-> {Len(PayloadShortReply)}, control |-> 0] >>

AutoInit ==
    /\ ComponentsInit
    /\ FallbackIdle
    /\ ReaderIdle
    /\ ServerIdle
    /\ requestsLeft = 0
    /\ cpc = "idle"
    /\ hpc = "embedded"
    /\ rawContent = <<>>
    /\ lastParsedData = EmptyObject
    /\ finalData = EmptyObject
    /\ split = FALSE
    /\ payload = <<>>
    /\ rest = <<>>
    /\ cuts = {}
    /\ controlLeft = 0
    /\ nextStreams = AutoStreams
    /\ stopLeft \in BOOLEAN
    /\ hookRows = {}
    /\ upsertCalls = <<>>
    /\ llmInstance = Null
    /\ llmReturned = Null
    /\ llmBuilt = 0
    /\ llmCallsLeft = 0
    /\ sessionId \in {"null", "s1"}
    /\ userMsgCount \in {0, 1}
    /\ hasAutoSubmittedRef = FALSE
    /\ autoTimers = 0
    /\ autoSubmissions = 0

\* what the steps of the automatic submission leave alone
BehindChat == <<fallbackVars, readerVars, serverVars, upsertVars, managerVars>>

\* the session context gets its session id
SessionInitialized ==
    /\ sessionId = "null"
    /\ sessionId' = "s1"
    /\ UNCHANGED <<handlerVars, driverVars, chatVars, transportVars, callVars, pageVars,
                   sessionVars, BehindChat, userMsgCount, hasAutoSubmittedRef,
                   autoTimers, autoSubmissions>>

\* the monitor effect with its comparison turned round
MonitorEffectTurned ==
    /\ Len(assistantMessages) <= userMsgCount
    /\ hasAutoSubmittedRef
    /\ hasAutoSubmittedRef' = FALSE
    /\ UNCHANGED <<handlerVars, driverVars, chatVars, transportVars, callVars, pageVars,
                   sessionVars, BehindChat, sessionId, userMsgCount,
                   autoTimers, autoSubmissions>>

\* the message count monitor effect (ChatComponent.tsx:622-633)
MonitorEffect ==
    /\ Len(assistantMessages) >= userMsgCount
    /\ hasAutoSubmittedRef
    /\ hasAutoSubmittedRef' = FALSE
    /\ UNCHANGED <<handlerVars, driverVars, chatVars, transportVars, callVars, pageVars,
                   sessionVars, BehindChat, sessionId, userMsgCount,
                   autoTimers, autoSubmissions>>

\* the auto-submit effect (ChatComponent.tsx:593-619), up to setTimeout
AutoSubmitEffect ==
    /\ userMsgCount > 0
    /\ Len(assistantMessages) = 0
    /\ ~isStreamingReply
    /\ sessionId # "null"
    /\ ~hasAutoSubmittedRef
    /\ hasAutoSubmittedRef' = TRUE
    /\ autoTimers' = autoTimers + 1
    /\ UNCHANGED <<handlerVars, driverVars, chatVars, transportVars, callVars, pageVars,
                   sessionVars, BehindChat, sessionId, userMsgCount, autoSubmissions>>

\* handleCustomSubmit from resetStreamingState(true) to `await fetch`
\* (ChatComponent.tsx:547-571): the submission gets the next stream, and a
\* loop still reading goes on as an older loop
SubmissionStarts ==
    /\ nextStreams # <<>>
    /\ olderLoops' = IF cpc = "reading" THEN Append(olderLoops, RunningLoop)
                     ELSE olderLoops
    /\ payload' = Head(nextStreams).text
    /\ rest' = Head(nextStreams).text
    /\ cuts' = Head(nextStreams).cuts
    /\ controlLeft' = Head(nextStreams).control
    /\ nextStreams' = Tail(nextStreams)
    /\ nError' = 0
    /\ nDone' = 0
    /\ split' = FALSE
    /\ finalReply' = <<>>
    /\ closureHookCode' = streamingHookCode
    /\ resetStreamingState(TRUE)
    /\ cpc' = "fetching"
    /\ UNCHANGED <<handlerVars, hpc, replyReceived, errorsReceived, assistantMessages,
                   isStreamingHookCode, pageError, handlerRef, stopLeft, BehindChat>>

\* the timer of the auto-submit effect: handleCustomSubmit(e, true)
\* (ChatComponent.tsx:613-617, 520-571); the message is the last user
\* message of the render that set the timer, and none is added
AutoTimerFires ==
    /\ autoTimers > 0
    /\ cpc # "fetching"
    /\ autoTimers' = autoTimers - 1
    /\ autoSubmissions' = autoSubmissions + 1
    /\ SubmissionStarts
    /\ UNCHANGED <<sessionId, userMsgCount, hasAutoSubmittedRef>>

\* the user submits the form, enabled while isStreamingReply is false, with
\* some text in it: handleCustomSubmit(e) (ChatComponent.tsx:520-571)
ManualSubmit ==
    /\ ~isStreamingReply
    /\ cpc # "fetching"
    /\ autoTimers = 0
    /\ userMsgCount' = userMsgCount + 1
    /\ SubmissionStarts
    /\ UNCHANGED <<sessionId, hasAutoSubmittedRef, autoTimers, autoSubmissions>>

AutoNext ==
    \/ SessionInitialized
    \/ AutoSubmitEffect
    \/ MonitorEffect
    \/ AutoTimerFires
    \/ ManualSubmit
    \/ ResponseArrives
    \/ FetchFails
    \/ RecvData
    \/ RecvDone
    \/ RecvError
    \/ EndOfStream
    \/ HandleStop
    \/ OlderRecvData
    \/ OlderRecvDone
    \/ OlderEndOfStream

SpecAuto == AutoInit /\ [][AutoNext]_vars

----------------------------------------------------------------------------
(* processHookCodeChunk (streamUtils.ts:219-262), the JSON path.  The      *)
(* chunks are pieces of JSON texts made of flat objects with string        *)
(* members and no white space inside; JSON.parse is computed on them, and  *)
(* jsonrepair, a library, is a choice among the outcomes it can have.      *)

Quote == "\""

ParseFailed == [ok |-> FALSE, value |-> EmptyObject]
Parsed(obj) == [ok |-> TRUE, value |-> obj]

\* the property name a quoted key of these texts stands for
KeyOf(chars) ==
    CASE chars = <<"n","a","m","e">> -> "name"
      [] chars = <<"c","o","d","e">> -> "code"
      [] OTHER                       -> "other"

RECURSIVE ParseMembers(_, _)
\* the members `"key":"value"` of an object, separated by commas
ParseMembers(body, acc) ==
    IF Len(body) < 5 \/ body[1] # Quote THEN ParseFailed
    ELSE Bind(IndexOf(body, <<Quote>>, 2), LAMBDA q2 :
         IF q2 = 0 \/ q2 + 2 > Len(body) \/ body[q2 + 1] # ":" \/ body[q2 + 2] # Quote
         THEN ParseFailed
         ELSE Bind(IndexOf(body, <<Quote>>, q2 + 3), LAMBDA q4 :
              IF q4 = 0 THEN ParseFailed
              ELSE Bind(Spread(acc, [k \in {KeyOf(SubSeq(body, 2, q2 - 1))} |->
                                        SubSeq(body, q2 + 3, q4 - 1)]), LAMBDA obj :
                   IF q4 = Len(body) THEN Parsed(obj)
                   ELSE IF body[q4 + 1] = "," /\ q4 + 1 < Len(body)
                        THEN ParseMembers(SubSeq(body, q4 + 2, Len(body)), obj)
                        ELSE ParseFailed)))

\* JSON.parse(text) for these texts: the object, or the failure it throws
JsonParse(text) ==
    Bind(Trim(text), LAMBDA t :
        IF Len(t) < 2 \/ t[1] # "{" \/ t[Len(t)] # "}" THEN ParseFailed
        ELSE IF Len(t) = 2 THEN Parsed(EmptyObject)
        ELSE ParseMembers(SubSeq(t, 2, Len(t) - 1), EmptyObject))

\* what jsonrepair may add to the end of a truncated text
RepairSuffixes == { <<"}">>, <<Quote, "}">> }

\* JSON.parse(jsonrepair(text)): valid JSON is returned as it is; any other
\* text is repaired to one of its completions or makes jsonrepair throw
RepairOutcomes(text) ==
    IF JsonParse(text).ok THEN { JsonParse(text) }
    ELSE { ParseFailed }
         \cup { o \in { JsonParse(text \o sfx) : sfx \in RepairSuffixes } : o.ok }

\* prev._rawContent || ''
RawOf(prev) == IF "_rawContent" \in DOMAIN prev THEN prev["_rawContent"] ELSE <<>>

\* content.trim().startsWith('{') && content.trim().endsWith('}')
LooksLikeJson(content) ==
    Bind(Trim(content), LAMBDA t : t # <<>> /\ t[1] = "{" /\ t[Len(t)] = "}")

WithRaw(obj, raw) == Spread(obj, [k \in {"_rawContent"} |-> raw])

\* processHookCodeChunk that keeps nothing of a chunk it cannot parse
processHookCodeChunkDroppingRaw(prev, content, repaired) ==
    IF LooksLikeJson(content) /\ JsonParse(content).ok
    THEN WithRaw(Spread(prev, JsonParse(content).value), RawOf(prev) \o content)
    ELSE IF repaired.ok
         THEN WithRaw(Spread(prev, repaired.value), RawOf(prev) \o content)
         ELSE prev

\* streamUtils.ts:225-262, a string chunk: the next streamingHookCode, given
\* what JSON.parse(jsonrepair(newRaw)) comes to
processHookCodeChunk(prev, content, repaired) ==
    IF LooksLikeJson(content) /\ JsonParse(content).ok
    THEN WithRaw(Spread(prev, JsonParse(content).value), RawOf(prev) \o content)
    ELSE IF repaired.ok
         THEN WithRaw(Spread(prev, repaired.value), RawOf(prev) \o content)
         ELSE WithRaw(prev, RawOf(prev) \o content)

\* {"name":"A","code":"x"}
JsonOneObject ==
    <<"{", Quote, "n","a","m","e", Quote, ":", Quote, "A", Quote, ",",
      Quote, "c","o","d","e", Quote, ":", Quote, "x", Quote, "}">>
\* {"name":"A"}{"code":"x"}
JsonTwoObjects ==
    <<"{", Quote, "n","a","m","e", Quote, ":", Quote, "A", Quote, "}",
      "{", Quote, "c","o","d","e", Quote, ":", Quote, "x", Quote, "}">>

FallbackPayloads == { JsonOneObject, JsonTwoObjects }

\* the objects the backend may send as the content of a chunk
ObjectChunks == { [k \in {"description"} |-> <<"D">>] }

FallbackInit ==
    /\ ComponentsInit
    /\ OffstageInit
    /\ nextStreams = <<>>
    /\ stopLeft = FALSE
    /\ cpc = "none"
    /\ cuts = {}
    /\ controlLeft = 0
    /\ payload \in FallbackPayloads
    /\ rest = payload
    /\ rawContent = <<>>
    /\ lastParsedData = EmptyObject
    /\ finalData = EmptyObject
    /\ hpc = "chunks"
    /\ split = FALSE

\* a chunk whose content is a string (streamUtils.ts:225-262)
StringChunk ==
    /\ hpc = "chunks"
    /\ \E k \in FragmentLengths(rest) :
        \E content \in {SubSeq(rest, 1, k)} :
        \E repaired \in RepairOutcomes(RawOf(streamingHookCode) \o content) :
          /\ streamingHookCode' = processHookCodeChunk(streamingHookCode, content, repaired)
          /\ parseOutcome' =
                IF LooksLikeJson(content) /\ JsonParse(content).ok THEN "parsed"
                ELSE IF repaired.ok THEN "repaired" ELSE "failed"
          /\ rest' = SubSeq(rest, k + 1, Len(rest))
    /\ isStreamingHookCode' = TRUE
    /\ split' = (rest # payload)
    /\ UNCHANGED <<handlerVars, payload, hpc, chatVars, transportVars, callVars,
                   closureHookCode, jsonData, isStreaming, streamingComplete,
                   pageError, handlerRef, sessionVars, readerVars, serverVars, backVars>>

\* a chunk whose content is an object (streamUtils.ts:264-272)
ObjectChunk ==
    /\ hpc = "chunks"
    /\ \E obj \in ObjectChunks :
          streamingHookCode' = WithRaw(Spread(streamingHookCode, obj),
                                       RawOf(streamingHookCode))
    /\ parseOutcome' = "object"
    /\ isStreamingHookCode' = TRUE
    /\ UNCHANGED <<handlerVars, driverVars, chatVars, transportVars, callVars,
                   closureHookCode, jsonData, isStreaming, streamingComplete,
                   pageError, handlerRef, sessionVars, readerVars, serverVars, backVars>>

FallbackNext == StringChunk \/ ObjectChunk

SpecFallback == FallbackInit /\ [][FallbackNext]_vars

----------------------------------------------------------------------------
(* processStreamEvents, ChatComponent.tsx:377-402: the reassembly of the   *)
(* server-sent events from the reads of the response body.  The bytes of   *)
(* the body are ASCII, one character each; payload is the whole body and   *)
(* rest what has not been read.  sseEvents is the data of the events that  *)
(* pass the filter, in the order they are handed to the frame handling     *)
(* (the steps RecvData, RecvDone and RecvError of a chat session).         *)

BlankLine == <<"\n", "\n">>
DataPrefix == <<"d", "a", "t", "a", ":", " ">>

\* String.prototype.startsWith(pat)
StartsWith(s, pat) == Len(s) >= Len(pat) /\ SubSeq(s, 1, Len(pat)) = pat

\* String.prototype.replace(pat, ""), the first occurrence only
RemoveFirst(s, pat) ==
    Bind(IndexOf(s, pat, 1), LAMBDA i :
        IF i = 0 THEN s
        ELSE SubSeq(s, 1, i - 1) \o SubSeq(s, i + Len(pat), Len(s)))

RECURSIVE SplitOnBlankLine(_)
\* buffer.split("\n\n")
SplitOnBlankLine(s) ==
    Bind(IndexOf(s, BlankLine, 1), LAMBDA i :
        IF i = 0 THEN <<s>>
        ELSE <<SubSeq(s, 1, i - 1)>> \o SplitOnBlankLine(SubSeq(s, i + 2, Len(s))))

\* the events the loop does not skip (ChatComponent.tsx:394)
IsHandled(event) == Trim(event) # <<>> /\ StartsWith(event, DataPrefix)

\* the data of an event (ChatComponent.tsx:396)
EventData(event) == Trim(RemoveFirst(event, DataPrefix))

\* a read that forgets the incomplete event at the end of the buffer
readValueDroppingTail(buffer, events, value) ==
    Bind(SplitOnBlankLine(buffer \o value), LAMBDA pieces :
        [buffer |-> <<>>,
         events |-> events \o
                    [i \in 1 .. Len(SelectSeq(SubSeq(pieces, 1, Len(pieces) - 1), IsHandled)) |->
                        EventData(SelectSeq(SubSeq(pieces, 1, Len(pieces) - 1), IsHandled)[i])]])

\* one pass of the read loop over a value read (ChatComponent.tsx:387-402):
\* the buffer kept and the events handled so far
readValue(buffer, events, value) ==
    Bind(SplitOnBlankLine(buffer \o value), LAMBDA pieces :
    Bind(SelectSeq(SubSeq(pieces, 1, Len(pieces) - 1), IsHandled), LAMBDA handled :
        [buffer |-> pieces[Len(pieces)],
         events |-> events \o [i \in 1 .. Len(handled) |-> EventData(handled[i])]]))

WireDataA == <<"d","a","t","a",":"," ","a","\n","\n">>
WireDataB == <<"d","a","t","a",":"," "," ","b"," ","\n","\n">>
WireDone == <<"d","a","t","a",":"," ","[","D","O","N","E","]","\n","\n">>
WireComment == <<":"," ","p","\n","\n">>
WireDataTwice == <<"d","a","t","a",":"," ","d","a","t","a",":"," ","x","\n","\n">>
WireTail == <<"d","a","t","a",":"," ","c">>

\* bodies: events after one another; a third newline after an event; a
\* comment, blank events and an event the body ends in; a newline first
WireStreams ==
    { WireDataA \o WireDone,
      WireDataA \o <<"\n">> \o WireDataB \o WireDataA,
      WireComment \o WireDataB \o BlankLine \o WireDataTwice \o WireTail,
      <<"\n">> \o WireDone \o WireTail \o BlankLine }

ReaderInit ==
    /\ ComponentsInit
    /\ OffstageInit
    /\ nextStreams = <<>>
    /\ stopLeft = FALSE
    /\ cpc = "none"
    /\ cuts = {}
    /\ controlLeft = 0
    /\ payload \in WireStreams
    /\ rest = payload
    /\ rawContent = <<>>
    /\ lastParsedData = EmptyObject
    /\ finalData = EmptyObject
    /\ hpc = "wire"
    /\ split = FALSE

\* reader.read() yields a value: any number of the bytes not read yet
ReadValue ==
    /\ hpc = "wire"
    /\ \E k \in 1 .. Len(rest) :
        \E r \in {readValue(sseBuffer, sseEvents, SubSeq(rest, 1, k))} :
          /\ sseBuffer' = r.buffer
          /\ sseEvents' = r.events
          /\ split' = (split \/ r.buffer # <<>>)
          /\ rest' = SubSeq(rest, k + 1, Len(rest))
    /\ UNCHANGED <<handlerVars, payload, hpc, chatVars, transportVars, callVars,
                   pageVars, sessionVars, fallbackVars, serverVars, backVars>>

\* reader.read() reports done: the loop is left with what the buffer holds
ReadDone ==
    /\ hpc = "wire"
    /\ rest = <<>>
    /\ hpc' = "wireDone"
    /\ UNCHANGED <<handlerVars, payload, rest, split, chatVars, transportVars, callVars,
                   pageVars, sessionVars, offstageVars>>

ReaderNext == ReadValue \/ ReadDone

SpecReader == ReaderInit /\ [][ReaderNext]_vars

----------------------------------------------------------------------------
(* HooksController (part_006): the streaming handlers chat, generateReply  *)
(* and generateHookCode, and the database rows of one session.  A request  *)
(* is served from its arrival to res.end(); the model's stream yields      *)
(* modelChunks and then ends or throws (modelFails).                       *)

\* the requests one client makes (a bound of the model)
MaxRequests == 2

Routes == { "chat", "generateReply", "generateHookCode" }

\* what the reply chain yields: objects { reply }
ReplyStreams == { <<>>, << <<"h", "i">> >> }

\* what the hook code chain yields: strings (StringOutputParser)
HookStreams ==
    { <<>>,
      << <<>> >>,
      << OpenName \o <<"A">> \o CloseName, OpenHookCode \o <<"x">> \o CloseHookCode >> }

Frame(type, content) == [type |-> type, content |-> content, message |-> ""]
DoneFrame == Frame("done", <<>>)

\* an error chunk that also ends the stream
errorChunkThenDone(fr, message) ==
    fr \o << [type |-> "error", content |-> <<>>, message |-> message], DoneFrame >>

\* res.write of an errorChunk (part_006:238-245, 306-315, 467-473, 637-646)
errorChunk(fr, message) ==
    Append(fr, [type |-> "error", content |-> <<>>, message |-> message])

ReplyErrors == { "Failed to generate reply. Please try again." }
HookCodeErrors == { "Failed to parse hook code. The AI generated incomplete or invalid JSON.",
                    "Failed to generate hook code. Please try again." }

\* UniswapHookGeneratorAgent.initializeSession, the hook code it returns
\* (part_008:420-458): the row has no `content` column
initializeSessionHookCode(row) ==
    IF row.kind = "null"
    THEN Obj([k \in {"name", "description", "code"} |-> <<>>])
    ELSE IF "content" \in DOMAIN row.value
         THEN Obj(row.value["content"])
         ELSE Undefined

\* hookData.name || 'Unnamed Hook' and its like: a property of a string is
\* undefined
hookCodeRow(data) ==
    [k \in {"name", "description", "code"} |->
        IF data.kind = "object" /\ k \in DOMAIN data.value /\ data.value[k] # <<>>
        THEN data.value[k]
        ELSE CASE k = "name"        -> <<"Unnamed Hook">>
               [] k = "description" -> <<"No description provided">>
               [] k = "code"        -> <<>>]

\* hookData += chunk, from `let hookData: any = null` (part_006:572, 585-587)
AddChunk(data, chunk) ==
    IF data.kind = "null" THEN Str(<<"n", "u", "l", "l">> \o chunk)
    ELSE Str(data.value \o chunk)

\* the messages a client sends
UserMessages == { <<"u">>, <<"v">> }

\* db.messages.createMessage: a row after the rows of the session
createMessage(rows, role, content) == Append(rows, [role |-> role, content |-> content])

\* initializeSession, the message it stores (part_008:377-384)
initializeSessionStore(rows, message) == createMessage(rows, "user", message)

\* the label of a row in the history (part_008:411)
RoleLabel(role) ==
    IF role = "user" THEN <<"U","s","e","r"," ","M","e","s","s","a","g","e">>
    ELSE <<"A","s","s","i","s","t","a","n","t"," ","M","e","s","s","a","g","e">>

RECURSIVE Join(_, _)
\* Array.prototype.join(sep)
Join(list, sep) ==
    IF list = <<>> THEN <<>>
    ELSE IF Len(list) = 1 THEN list[1]
    ELSE list[1] \o sep \o Join(Tail(list), sep)

\* the rendering of rows as lines (part_008:410-413)
HistoryLines(rows) ==
    Join([i \in 1 .. Len(rows) |-> RoleLabel(rows[i].role) \o <<":", " ">> \o rows[i].content],
         <<"\n">>)

\* initializeSession, the history it builds (part_008:402-413):
\* previousMessages is dbMessages.slice(0, dbMessages.length)
initializeSessionHistory(dbMessages) ==
    HistoryLines(SubSeq(dbMessages, 1, Len(dbMessages)))

ServerInit ==
    /\ ComponentsInit
    /\ FallbackIdle
    /\ ReaderIdle
    /\ ServerIdle
    /\ BackIdle
    /\ requestsLeft = MaxRequests
    /\ nextStreams = <<>>
    /\ stopLeft = FALSE
    /\ cpc = "none"
    /\ hpc = "embedded"
    /\ cuts = {}
    /\ controlLeft = 0
    /\ payload = <<>>
    /\ rest = <<>>
    /\ rawContent = <<>>
    /\ lastParsedData = EmptyObject
    /\ finalData = EmptyObject
    /\ split = FALSE

\* what the server's handlers leave alone
FrontEndVars == <<handlerVars, driverVars, chatVars, transportVars, callVars,
                  pageVars, sessionVars, fallbackVars, readerVars, backVars>>

\* a request up to the SSE headers: validation, the user message stored by
\* chat and generateReply (part_006:158-165, 387-394), initializeSession,
\* which stores it too, res.setHeader (part_006:513-568 and the like)
StartRequest ==
    /\ spc = "idle"
    /\ requestsLeft > 0
    /\ requestsLeft' = requestsLeft - 1
    /\ \E r \in Routes :
          /\ route' = r
          /\ spc' = IF r = "generateHookCode" THEN "hookCode" ELSE "reply"
          /\ modelChunks' \in (IF r = "generateHookCode" THEN HookStreams ELSE ReplyStreams)
    /\ modelFails' \in BOOLEAN
    /\ userMessage' \in UserMessages
    /\ messages' = initializeSessionStore(
                       IF route' = "generateHookCode" THEN messages
                       ELSE createMessage(messages, "user", userMessage'),
                       userMessage')
    /\ messageHistory' = initializeSessionHistory(messages')
    /\ sessionHookCode' = initializeSessionHookCode(hookCodes)
    /\ frames' = <<>>
    /\ resStatus' = 0
    /\ resEnded' = FALSE
    /\ fullReply' = <<>>
    /\ srvHookData' = Absent
    /\ UNCHANGED <<FrontEndVars, hookCodes>>

\* a request refused before the SSE headers: no session id, no such
\* session, or an exception (part_006:521-541, 660-662)
RejectRequest ==
    /\ spc = "idle"
    /\ requestsLeft > 0
    /\ requestsLeft' = requestsLeft - 1
    /\ route' \in Routes
    /\ resStatus' \in {400, 404, 500}
    /\ resEnded' = TRUE
    /\ frames' = <<>>
    /\ fullReply' = <<>>
    /\ srvHookData' = Absent
    /\ UNCHANGED <<FrontEndVars, spc, modelChunks, modelFails, messages, hookCodes,
                   sessionHookCode, userMessage, messageHistory>>

\* a chunk of the reply stream (part_006:197-214, 426-443)
ReplyChunk ==
    /\ spc = "reply"
    /\ modelChunks # <<>>
    /\ fullReply' = fullReply \o Head(modelChunks)
    /\ frames' = Append(frames, Frame("reply", Head(modelChunks)))
    /\ modelChunks' = Tail(modelChunks)
    /\ UNCHANGED <<FrontEndVars, spc, route, modelFails, resStatus, resEnded,
                   srvHookData, messages, hookCodes, sessionHookCode, requestsLeft,
                   userMessage, messageHistory>>

\* the end of the reply stream, or its exception; generateReply then ends
\* the response, chat goes on to the hook code (part_006:215-247, 444-479)
ReplyEnds ==
    /\ spc = "reply"
    /\ modelChunks = <<>>
    /\ messages' = IF ~modelFails /\ fullReply # <<>>
                   THEN createMessage(messages, "assistant", fullReply)
                   ELSE messages
    /\ \E m \in ReplyErrors :
        \E written \in {IF modelFails THEN errorChunk(frames, m) ELSE frames} :
          IF route = "chat"
          THEN /\ frames' = written
               /\ spc' = "hookCode"
               /\ modelChunks' \in HookStreams
               /\ modelFails' \in BOOLEAN
               /\ resEnded' = FALSE
          ELSE /\ frames' = Append(written, DoneFrame)
               /\ spc' = "idle"
               /\ modelChunks' = <<>>
               /\ modelFails' = FALSE
               /\ resEnded' = TRUE
    /\ UNCHANGED <<FrontEndVars, route, resStatus, fullReply, srvHookData, hookCodes,
                   sessionHookCode, requestsLeft, userMessage, messageHistory>>

\* a chunk of the hook code stream (part_006:256-272, 580-596)
HookCodeChunk ==
    /\ spc = "hookCode"
    /\ modelChunks # <<>>
    /\ srvHookData' = IF Head(modelChunks) = <<>> THEN srvHookData
                      ELSE IF route = "chat" THEN Str(Head(modelChunks))
                      ELSE AddChunk(srvHookData, Head(modelChunks))
    /\ frames' = Append(frames, Frame(IF route = "chat" THEN "hookCode" ELSE "data",
                                      Head(modelChunks)))
    /\ modelChunks' = Tail(modelChunks)
    /\ UNCHANGED <<FrontEndVars, spc, route, modelFails, resStatus, resEnded,
                   fullReply, messages, hookCodes, sessionHookCode, requestsLeft,
                   userMessage, messageHistory>>

\* the end of the hook code stream, or its exception, then the end of the
\* response (part_006:273-320, 597-651)
HookCodeEnds ==
    /\ spc = "hookCode"
    /\ modelChunks = <<>>
    /\ hookCodes' = IF ~modelFails /\ srvHookData.kind # "null"
                    THEN Obj(hookCodeRow(srvHookData))
                    ELSE hookCodes
    /\ \E m \in HookCodeErrors :
          frames' = Append(IF modelFails THEN errorChunk(frames, m) ELSE frames, DoneFrame)
    /\ resEnded' = TRUE
    /\ spc' = "idle"
    /\ modelFails' = FALSE
    /\ UNCHANGED <<FrontEndVars, route, modelChunks, resStatus, fullReply, srvHookData,
                   messages, sessionHookCode, requestsLeft, userMessage, messageHistory>>

ServerNext ==
    \/ StartRequest
    \/ RejectRequest
    \/ ReplyChunk
    \/ ReplyEnds
    \/ HookCodeChunk
    \/ HookCodeEnds

SpecServer == ServerInit /\ [][ServerNext]_vars

----------------------------------------------------------------------------
(* HookCodeRepository.createHookCode (hookCodeRepository.ts:13-41) called  *)
(* by several requests of one session.  A call is suspended at each await, *)
(* so the queries of different calls interleave; the table enforces        *)
(* sessionId @unique (schema.prisma:44).                                   *)

\* the createHookCode calls in flight (a bound of the model)
MaxCalls == 3

HookNames == { "A", "B" }

\* the session all the calls are for
TheSession == "s"

\* the rows of the table with the session id
RowsOfSession(rows, sid) == { r \in rows : r.sessionId = sid }

\* prisma.hookCode.findUnique({ where: { sessionId } }): the id of the row,
\* 0 for null
findUnique(rows, sid) ==
    IF RowsOfSession(rows, sid) = {} THEN 0
    ELSE (CHOOSE r \in RowsOfSession(rows, sid) : TRUE).id

\* prisma.hookCode.update({ where: { id }, data }): the table and whether
\* the query succeeded (it fails when no row has the id)
update(rows, id, data) ==
    IF \E r \in rows : r.id = id
    THEN [rows |-> { IF r.id = id THEN [id |-> id, sessionId |-> data.sessionId,
                                        name |-> data.name]
                     ELSE r : r \in rows },
          ok |-> TRUE]
    ELSE [rows |-> rows, ok |-> FALSE]

\* prisma.hookCode.create({ data }): it fails on a second row for a session
\* (sessionId @unique)
create(rows, data) ==
    IF RowsOfSession(rows, data.sessionId) # {}
    THEN [rows |-> rows, ok |-> FALSE]
    ELSE [rows |-> rows \cup {[id |-> Cardinality(rows) + 1, sessionId |-> data.sessionId,
                               name |-> data.name]},
          ok |-> TRUE]

NewCall(name) ==
    [pc |-> "finding", data |-> [sessionId |-> TheSession, name |-> name],
     existingHook |-> 0, result |-> "pending"]

UpsertInit ==
    /\ ComponentsInit
    /\ FallbackIdle
    /\ ReaderIdle
    /\ ServerIdle
    /\ requestsLeft = 0
    /\ nextStreams = <<>>
    /\ stopLeft = FALSE
    /\ cpc = "none"
    /\ hpc = "embedded"
    /\ cuts = {}
    /\ controlLeft = 0
    /\ payload = <<>>
    /\ rest = <<>>
    /\ rawContent = <<>>
    /\ lastParsedData = EmptyObject
    /\ finalData = EmptyObject
    /\ split = FALSE
    /\ sessionId = "null"
    /\ userMsgCount = 0
    /\ hasAutoSubmittedRef = FALSE
    /\ autoTimers = 0
    /\ autoSubmissions = 0
    /\ llmInstance = Null
    /\ llmReturned = Null
    /\ llmBuilt = 0
    /\ llmCallsLeft = 0
    /\ hookRows \in { {}, {[id |-> 1, sessionId |-> TheSession, name |-> "A"]} }
    /\ upsertCalls \in [1 .. MaxCalls -> { NewCall(n) : n \in HookNames }]

\* what a step of createHookCode leaves alone
AllButUpsert == <<handlerVars, driverVars, chatVars, transportVars, callVars, pageVars,
                  sessionVars, fallbackVars, readerVars, serverVars, autoVars, managerVars>>

\* createHookCode up to the result of findUnique (hookCodeRepository.ts:24-26)
FindExisting ==
    /\ \E c \in DOMAIN upsertCalls :
          /\ upsertCalls[c].pc = "finding"
          /\ upsertCalls' = [upsertCalls EXCEPT
                ![c].existingHook = findUnique(hookRows, upsertCalls[c].data.sessionId),
                ![c].pc = "found"]
    /\ UNCHANGED <<hookRows, AllButUpsert>>

\* if (existingHook) return prisma.hookCode.update(...)
\* (hookCodeRepository.ts:28-34)
UpdateExisting ==
    /\ \E c \in DOMAIN upsertCalls :
          /\ upsertCalls[c].pc = "found"
          /\ upsertCalls[c].existingHook # 0
          /\ \E q \in {update(hookRows, upsertCalls[c].existingHook, upsertCalls[c].data)} :
                /\ hookRows' = q.rows
                /\ upsertCalls' = [upsertCalls EXCEPT
                      ![c].result = IF q.ok THEN "ok" ELSE "error",
                      ![c].pc = "done"]
    /\ UNCHANGED AllButUpsert

\* return prisma.hookCode.create(...) (hookCodeRepository.ts:36-40)
CreateNew ==
    /\ \E c \in DOMAIN upsertCalls :
          /\ upsertCalls[c].pc = "found"
          /\ upsertCalls[c].existingHook = 0
          /\ \E q \in {create(hookRows, upsertCalls[c].data)} :
                /\ hookRows' = q.rows
                /\ upsertCalls' = [upsertCalls EXCEPT
                      ![c].result = IF q.ok THEN "ok" ELSE "error",
                      ![c].pc = "done"]
    /\ UNCHANGED AllButUpsert

UpsertNext == FindExisting \/ UpdateExisting \/ CreateNew

SpecUpsert == UpsertInit /\ [][UpsertNext]_vars

----------------------------------------------------------------------------
(* LLMModelManager (part_009:248-291): the private constructor and the     *)
(* static getInstance, called with any configuration.                      *)

\* the getInstance calls of a run (a bound of the model)
MaxGetInstanceCalls == 3

\* LLLModelConfig values; "undefined" for an enableTools that is not given,
\* "" for a missing apiKey, "other" for a provider the constructor rejects
LLMConfigs ==
    [provider : {"openai", "anthropic", "deepseek", "other"},
     apiKey : {"", "k"},
     modelName : {"m1", "m2"},
     enableTools : {"true", "false", "undefined"}]

\* new LLMModelManager(config) (part_009:253-281): Null when it throws,
\* else the object, the id-th one constructed
NewManager(config, id) ==
    IF config.apiKey = "" THEN Null
    ELSE IF config.provider \notin {"openai", "anthropic", "deepseek"} THEN Null
    ELSE Some([id |-> id,
               model |-> [chat |-> IF config.provider = "anthropic" THEN "ChatAnthropic"
                                   ELSE "ChatOpenAI",
                          modelName |-> config.modelName,
                          baseURL |-> IF config.provider = "deepseek"
                                      THEN "https://api.deepseek.com" ELSE "default"],
               enableTools |-> (config.enableTools = "true")])

\* getInstance that builds a new manager when the provider asked for is not
\* the one the instance was built for
getInstanceByProvider(inst, built, config) ==
    IF inst.isNull \/ (NewManager(config, built + 1).isNull = FALSE
                       /\ NewManager(config, built + 1).value.model # inst.value.model)
    THEN [inst |-> NewManager(config, built + 1),
          returned |-> NewManager(config, built + 1),
          built |-> IF NewManager(config, built + 1).isNull THEN built ELSE built + 1]
    ELSE [inst |-> inst, returned |-> inst, built |-> built]

\* LLMModelManager.getInstance (part_009:283-288): the static field, what
\* the call returns (Null when the constructor throws) and the managers built
getInstance(inst, built, config) ==
    IF inst.isNull
    THEN [inst |-> NewManager(config, built + 1),
          returned |-> NewManager(config, built + 1),
          built |-> IF NewManager(config, built + 1).isNull THEN built ELSE built + 1]
    ELSE [inst |-> inst, returned |-> inst, built |-> built]

ManagerInit ==
    /\ ComponentsInit
    /\ FallbackIdle
    /\ ReaderIdle
    /\ ServerIdle
    /\ requestsLeft = 0
    /\ nextStreams = <<>>
    /\ stopLeft = FALSE
    /\ cpc = "none"
    /\ hpc = "embedded"
    /\ cuts = {}
    /\ controlLeft = 0
    /\ payload = <<>>
    /\ rest = <<>>
    /\ rawContent = <<>>
    /\ lastParsedData = EmptyObject
    /\ finalData = EmptyObject
    /\ split = FALSE
    /\ hookRows = {}
    /\ upsertCalls = <<>>
    /\ sessionId = "null"
    /\ userMsgCount = 0
    /\ hasAutoSubmittedRef = FALSE
    /\ autoTimers = 0
    /\ autoSubmissions = 0
    /\ llmInstance = Null
    /\ llmReturned = Null
    /\ llmBuilt = 0
    /\ llmCallsLeft = MaxGetInstanceCalls

\* what a getInstance call leaves alone
AllButManager == <<handlerVars, driverVars, chatVars, transportVars, callVars, pageVars,
                   sessionVars, fallbackVars, readerVars, serverVars, upsertVars, autoVars>>

\* a getInstance(config) call that returns
GetInstanceReturns ==
    /\ llmCallsLeft > 0
    /\ \E config \in LLMConfigs :
        \E r \in {getInstance(llmInstance, llmBuilt, config)} :
          /\ ~r.returned.isNull
          /\ llmInstance' = r.inst
          /\ llmBuilt' = r.built
          /\ llmReturned' = Some([config |-> config, manager |-> r.returned.value])
    /\ llmCallsLeft' = llmCallsLeft - 1
    /\ UNCHANGED AllButManager

\* a getInstance(config) call that throws: the constructor rejected the
\* configuration and _instance stays unset
GetInstanceThrows ==
    /\ llmCallsLeft > 0
    /\ \E config \in LLMConfigs :
        \E r \in {getInstance(llmInstance, llmBuilt, config)} :
          /\ r.returned.isNull
          /\ llmInstance' = r.inst
          /\ llmBuilt' = r.built
    /\ llmReturned' = Null
    /\ llmCallsLeft' = llmCallsLeft - 1
    /\ UNCHANGED AllButManager

\* enableTools() on the instance (part_009:305-310)
EnableTools ==
    /\ ~llmInstance.isNull
    /\ ~llmInstance.value.enableTools
    /\ llmInstance' = Some([llmInstance.value EXCEPT !.enableTools = TRUE])
    /\ UNCHANGED <<llmReturned, llmBuilt, llmCallsLeft, AllButManager>>

ManagerNext == GetInstanceReturns \/ GetInstanceThrows \/ EnableTools

SpecManager == ManagerInit /\ [][ManagerNext]_vars

----------------------------------------------------------------------------
(* Claims about the stand-alone handler session (SpecHandler) *)

\* the record of a fresh handler given the whole text as one fragment
OneShot(text) == getFinalData(processFragment(<<>>, EmptyObject, text).lastParsedData)

\* C1: split-boundary invariance.  Once every fragment of a split of the
\* payload has been processed, getFinalData returns the record that a fresh
\* handler returns after processing the payload as a single fragment.
C1_SplitBoundaryInvariance ==
    (hpc = "final" /\ rest = <<>>) => finalData = OneShot(payload)

\* a split delivery of the hook-type payload has been finalized: the
\* earlier fragments saw only "after swap", or no phrase at all
C1_Witness ==
    /\ hpc = "final" /\ rest = <<>> /\ split
    /\ payload = PayloadHookTypes
    /\ finalData["hookType"] = hookTypes[1]
    /\ finalData["code"] = <<"x">>

\* the scalar tags: the key of the record, the opening and closing marker
ScalarTags ==
    { <<"name", OpenName, CloseName>>,
      <<"description", OpenDescription, CloseDescription>>,
      <<"code", OpenHookCode, CloseHookCode>>,
      <<"testCode", OpenTestCode, CloseTestCode>> }

\* C3: last-write-wins for scalar fields.  At the end of a session the
\* record holds, for every scalar tag with a completed region, the trimmed
\* content of the last completed region of that tag (<name>A</name> then
\* <name>B</name> gives name = B).
C3_LastWriteWins ==
    hpc = "final" =>
        \A t \in ScalarTags :
            LET regions == ExecAll(rawContent, t[2], t[3], 1)
            IN  regions # <<>> =>
                    /\ t[1] \in DOMAIN finalData
                    /\ finalData[t[1]] = regions[Len(regions)]

\* the entries of the last completed <examples> block of the content
LastExamplesBlock(content) ==
    LET blocks == ExecAll(content, OpenExamples, CloseExamples, 1)
    IN  IF blocks = <<>> THEN <<>>
        ELSE ExecAll(blocks[Len(blocks)], OpenExample, CloseExample, 1)

\* C4: list rebuild without duplication.  At the end of a session whose
\* content holds a completed examples block, the examples list is the list
\* of entries of the last completed block (three entries, not five, after a
\* block of two and a block that repeats them and adds a third).
C4_ExamplesRebuilt ==
    (hpc = "final" /\ LastExamplesBlock(rawContent) # <<>>) =>
        /\ "examples" \in DOMAIN finalData
        /\ finalData["examples"] = LastExamplesBlock(rawContent)

\* the content holds the opening marker and no closing marker after it
Unterminated(content, open, close) ==
    /\ Includes(content, open)
    /\ IndexOf(content, close, IndexOf(content, open, 1) + Len(open)) = 0

\* C5: an unterminated tag leaves its field unset.  When the accumulated
\* content holds the opening marker of a scalar field and no closing marker
\* after it, the record returned by getFinalData does not have the field.
C5_UnterminatedUnset ==
    hpc = "final" =>
        \A t \in ScalarTags \cup {<<"gasEstimate", OpenGasEstimate, CloseGasEstimate>>} :
            Unterminated(rawContent, t[2], t[3]) => t[1] \notin DOMAIN finalData

\* the session that ends in "<description>partial text" has been finalized
C5_Witness ==
    /\ hpc = "final" /\ rest = <<>> /\ split
    /\ payload = PayloadUnterminated
    /\ Unterminated(rawContent, OpenDescription, CloseDescription)
    /\ finalData["name"] = TxtFeeHook

\* C6: the finalized record never exposes diagnostic fields.  The object
\* returned by getFinalData has neither a _rawContent nor a _replyContent key.
C6_NoDiagnosticKeys ==
    hpc = "final" =>
        /\ "_rawContent" \notin DOMAIN finalData
        /\ "_replyContent" \notin DOMAIN finalData

\* the functionalities of a record, none when it has no such key
FunctionalitiesOf(record) ==
    IF "functionalities" \in DOMAIN record THEN record["functionalities"] ELSE <<>>

\* the fully closed feature blocks of the content, in order
ClosedFeatures(content) == ExecAll(content, OpenFeature, CloseFeature, 1)

\* C34: one functionalities entry per closed feature.  The record returned
\* by getFinalData has as many functionalities as the accumulated content
\* has fully closed feature blocks, also when a block has no name tag or an
\* empty name.
C34_OneEntryPerFeature ==
    hpc = "final" =>
        Len(FunctionalitiesOf(finalData)) = Len(ClosedFeatures(rawContent))

\* C14: a non-numeric gasEstimate is dropped silently.  The record returned
\* by getFinalData never has a gasEstimate that is not a number: a completed
\* gasEstimate region whose content does not parse leaves the field unset.
C14_NonNumericGasDropped ==
    hpc = "final" =>
        ("gasEstimate" \in DOMAIN finalData => finalData["gasEstimate"] # NaN)

\* the accumulated content holds none of the six phrases, in any letter case
NoKnownPhrase(content) ==
    \A i \in 1 .. Len(hookTypes) : ~Includes(ToLowerCase(content), hookTypes[i])

\* the fields of a record other than hookType and the diagnostic ones
ExtractedFields(record) == DOMAIN record \ {"hookType", "_replyContent", "_rawContent"}

\* C15: hook-type default.  For content that holds none of the six phrases,
\* the record returned by getFinalData has hookType 'custom' when it has at
\* least one other extracted field, and has no hookType when it has none.
C15_HookTypeDefault ==
    (hpc = "final" /\ NoKnownPhrase(rawContent)) =>
        IF ExtractedFields(finalData) # {}
        THEN "hookType" \in DOMAIN finalData /\ finalData["hookType"] = Custom
        ELSE "hookType" \notin DOMAIN finalData

\* the scenario text, with its hookCode region and no phrase, finalized
C15_Witness ==
    /\ hpc = "final" /\ rest = <<>> /\ split /\ payload = PayloadScenario
    /\ NoKnownPhrase(rawContent)
    /\ finalData["code"] = TxtContractA
    /\ finalData["hookType"] = Custom

----------------------------------------------------------------------------
(* Claims about a chat session (SpecChat) *)

\* the concatenation of the data fragments received so far
Delivered == SubSeq(payload, 1, Len(payload) - Len(rest))

RECURSIVE Concat(_)
Concat(list) == IF list = <<>> THEN <<>> ELSE Head(list) \o Concat(Tail(list))

\* the trimmed contents of the completed regions of a tag in the text, in
\* order, without the blank ones
Regions(text, open, close) ==
    SelectSeq(ExecAll(text, open, close, 1), LAMBDA g : g # <<>>)

Last(list) == list[Len(list)]

\* a stream of data frames only, while it is being read
DataFramesOnly == cpc = "reading" /\ nError = 0 /\ nDone = 0

FinalizeSignals == Cardinality({ i \in 1 .. Len(streamingChanges) : ~streamingChanges[i] })

\* C7: exactly-once finalization.  When processStreamEvents has run over the
\* data frames, the [DONE] frame and the end of the body of a stream,
\* onStreamingChange(false) has been delivered exactly once and
\* addAssistantMessage has been called exactly once.
C7_ExactlyOnceFinalization ==
    (cpc = "ended" /\ nDone = 1 /\ nError = 0 /\ rest = <<>>) =>
        /\ FinalizeSignals = 1
        /\ Len(assistantMessages) = 1

\* no hookCode marker lies inside a reply region of the text
NoCodeInsideReply(text) ==
    LET replies == ExecAll(text, OpenReply, CloseReply, 1)
    IN  \A i \in 1 .. Len(replies) :
            ~Includes(replies[i], OpenHookCode) /\ ~Includes(replies[i], CloseHookCode)

\* the calls of onReplyReceived for the given codes
Notifications(codes) ==
    [i \in 1 .. Len(codes) |-> OpenHookCode \o codes[i] \o CloseHookCode]

C9_CompleteDrain ==
    cpc # "none" =>
        /\ ~RegexMatch(bufferRef, OpenReply, CloseReply).matched
        /\ ~RegexMatch(bufferRef, OpenHookCode, CloseHookCode).matched

\* the reply region that removing the code region joined together has been
\* drained in the fragment that completed it
C9_Witness ==
    /\ cpc = "reading" /\ payload = PayloadJoined /\ rest = <<>>
    /\ accumulatedReplyRef = <<"y">>
    /\ replyReceived = <<OpenHookCode \o <<"x">> \o CloseHookCode>>
    /\ bufferRef = <<>>

\* C10: terminal states accept no ingestion.  Once an error frame or the
\* [DONE] frame has been processed, no later step of the stream changes the
\* reply, the parsed content or the page's streaming record through a data
\* frame, feeds the tag buffer, or calls onReplyReceived.
C10_NoIngestionAfterTerminal ==
    [][(cpc = "reading" /\ nError + nDone > 0 /\ rest' # rest) =>
          /\ accumulatedReplyRef' = accumulatedReplyRef
          /\ parsedContent' = parsedContent
          /\ replyReceived' = replyReceived
          /\ bufferRef' = bufferRef
          /\ streamingHookCode' = streamingHookCode
          /\ jsonData' = jsonData]_vars

\* C11: a transport error is fatal and not finalized as success.  Once an
\* error frame has been processed, every content passed to onError is the
\* content of an error frame, and when the session has ended no finalized
\* reply has been emitted (addAssistantMessage has not been called).
C11_ErrorNotFinalized ==
    nError > 0 =>
        /\ \A i \in 1 .. Len(errorsReceived) : errorsReceived[i] \in ErrorContents
        /\ cpc = "ended" => Len(assistantMessages) = 0

\* a data frame of a running stream is being processed in this step
DataFrameStep == cpc = "reading" /\ rest' # rest

\* C13: field-level merge, not full replacement.  A data frame that brings a
\* hook-code notification leaves every field the page's records already have
\* in place: the keys of streamingHookCode stay, and a field of jsonData
\* that the new notification does not carry keeps its value.
C13_FieldLevelMerge ==
    [][DataFrameStep =>
          /\ DOMAIN streamingHookCode \subseteq DOMAIN streamingHookCode'
          /\ \A k \in DOMAIN streamingHookCode \ {"code"} :
                Len(replyReceived') = Len(replyReceived) + 1 =>
                    jsonData'[k] = jsonData[k]]_vars

\* the drain state of the component
DrainState ==
    [buffer   |-> bufferRef,
     reply    |-> accumulatedReplyRef,
     replySet |-> FALSE,
     hookCode |-> parsedContent.hookCode,
     sent     |-> <<>>]

\* C16: idempotent drain.  Between two steps of a session, running
\* processBuffer again changes nothing: same buffer, same accumulated reply,
\* same hook code, no notification.
C16_IdempotentDrain ==
    cpc # "none" => processBuffer(DrainState) = DrainState

\* a drain has left text in the buffer after taking a reply out of it
C16_Witness ==
    /\ cpc = "reading" /\ payload = PayloadTwoReplies
    /\ accumulatedReplyRef = <<"a">>
    /\ bufferRef = <<" ", "t", " ">> \o OpenReply \o <<" ", "b">>

\* what the drain leaves of a text
Drained(text) ==
    processBuffer([buffer |-> text, reply |-> <<>>, replySet |-> FALSE,
                   hookCode |-> <<>>, sent |-> <<>>]).buffer

\* C19: fragments are ingested in arrival order and none is skipped.  While
\* a stream is read, the tag buffer is what the drain leaves of the in-order
\* concatenation of all data frames received: no text buffered from earlier
\* data frames is dropped before a later data frame is appended.
C19_NoFragmentDropped ==
    cpc = "reading" => bufferRef = Drained(Delivered)

\* C20: cancellation is not reported as completion.  When the body of the
\* response ends without a [DONE] frame and without an error frame, the
\* session ends without a finalized reply (addAssistantMessage is not
\* called).
C20_CancelNotCompletion ==
    (cpc = "ended" /\ nDone = 0 /\ nError = 0) => Len(assistantMessages) = 0

\* what a fresh component makes of a text received as one fragment
WholeAtOnce(text) ==
    processBuffer([buffer |-> text, reply |-> <<>>, replySet |-> FALSE,
                   hookCode |-> <<>>, sent |-> <<>>])

\* C24: fragment-boundary independence of the chat controller.  While the
\* data frames of a text arrive, cut anywhere, the accumulated reply and the
\* sequence of hook-code notifications are those the concatenation of the
\* fragments received gives when it arrives as one fragment, also for texts
\* with a hookCode region inside a reply region.
C24_BoundaryIndependence ==
    DataFramesOnly =>
        /\ accumulatedReplyRef = WholeAtOnce(Delivered).reply
        /\ replyReceived = WholeAtOnce(Delivered).sent

\* the first list of characters is the beginning of the second
IsPrefixOf(s, t) == Len(s) <= Len(t) /\ SubSeq(t, 1, Len(s)) = s

\* C26: the reply channel is append-only.  While a stream is read, every
\* step leaves the accumulated reply a prefix of its next value, and the
\* accumulated reply equals the concatenation, in order, of the trimmed
\* contents of the completed non-empty reply regions of the text received.
C26_ReplyAppendOnly ==
    [][(cpc = "reading" /\ cpc' = "reading") =>
          /\ IsPrefixOf(accumulatedReplyRef, accumulatedReplyRef')
          /\ (accumulatedReplyRef' = Concat(Regions(Delivered', OpenReply, CloseReply)))]_vars

\* the text has tag markup in it
HasMarkup(text) ==
    \E t \in {OpenReply, CloseReply, OpenHookCode, CloseHookCode} : Includes(text, t)

\* C27: the finalized reply is reply text only.  Every assistant message
\* added at the end of a stream is the accumulated reply and has no tag
\* markup in it, also when no reply region was completed.
C27_FinalReplyOnly ==
    (cpc = "ended" /\ assistantMessages # <<>>) =>
        /\ Last(assistantMessages) = accumulatedReplyRef
        /\ ~HasMarkup(Last(assistantMessages))

\* C35: the stream error stays visible.  Once handleStreamError(m) has run
\* in a session, the component's streamError is m, the message of the last
\* such call, for the rest of the session.
C35_StreamErrorStays ==
    errorsReceived # <<>> => streamError = Last(errorsReceived)

\* a region of the tag is complete in the buffer
RegionFound(buffer, openTag, closeTag) ==
    Bind(FindRegion(buffer, openTag, closeTag), LAMBDA m : m.o # 0 /\ m.endIdx # 0)

\* the buffer as the handler of the tag leaves it before it calls
\* processBuffer again
WithoutRegion(buffer, openTag, closeTag) ==
    Bind(FindRegion(buffer, openTag, closeTag), LAMBDA m :
        RemoveRegion(buffer, m.o, m.endIdx, closeTag))

RECURSIVE DrainShortens(_)
\* every processBuffer call the drain of st makes from inside a handler is
\* made on a buffer shorter than the one the handler found
DrainShortens(st) ==
    /\ RegionFound(st.buffer, OpenReply, CloseReply) =>
          Bind(WithoutRegion(st.buffer, OpenReply, CloseReply), LAMBDA b1 :
              /\ Len(b1) < Len(st.buffer)
              /\ DrainShortens([st EXCEPT !.buffer = b1]))
    /\ Bind(appendTagContentToReply(st, OpenReply, CloseReply, <<>>), LAMBDA s1 :
          RegionFound(s1.buffer, OpenHookCode, CloseHookCode) =>
              Bind(WithoutRegion(s1.buffer, OpenHookCode, CloseHookCode), LAMBDA b2 :
                  /\ Len(b2) < Len(s1.buffer)
                  /\ DrainShortens([s1 EXCEPT !.buffer = b2])))

\* the drain state processTextWithTypingEffect starts from
DrainInput(text) ==
    [buffer |-> bufferRef \o text, reply |-> accumulatedReplyRef, replySet |-> FALSE,
     hookCode |-> parsedContent.hookCode, sent |-> <<>>]

\* C25: the drain cycle terminates.  For every buffer content a data frame
\* can produce, each recursive processBuffer call is made after a tag region
\* has been removed, on a strictly shorter buffer, so the recursion stops.
C25_DrainTerminates ==
    cpc = "reading" =>
        \A k \in NextFragmentLengths : DrainShortens(DrainInput(SubSeq(rest, 1, k)))

\* a data frame is about to complete a reply region and a code region at
\* once: the drain recurses more than once
C25_Witness ==
    /\ cpc = "reading"
    /\ \E k \in NextFragmentLengths :
          /\ RegionFound(bufferRef \o SubSeq(rest, 1, k), OpenReply, CloseReply)
          /\ RegionFound(WithoutRegion(bufferRef \o SubSeq(rest, 1, k), OpenReply, CloseReply),
                         OpenHookCode, CloseHookCode)

----------------------------------------------------------------------------
(* Claims about one component over several submissions (SpecSessions) *)

\* an error frame of the running stream is being processed in this step
ErrorFrameStep == nError' = nError + 1

\* C12: an error frame does not corrupt prior state.  Processing an error
\* frame leaves what the session has extracted as it was: the accumulated
\* reply, the chat component's parsed reply and code, and the page's partial
\* record (streamingHookCode, with its name and code); and when the partial
\* record is not empty the preview panel is given the same hook data after
\* the frame as before.
C12_ErrorKeepsExtracted ==
    [][ErrorFrameStep =>
          /\ accumulatedReplyRef' = accumulatedReplyRef
          /\ parsedContent' = parsedContent
          /\ streamingHookCode' = streamingHookCode
          /\ (DOMAIN streamingHookCode # {} => hookDataToRender' = hookDataToRender)]_vars

C12_Witness ==
    /\ nError = 1
    /\ nDone = 0
    /\ ~isStreamingReply
    /\ parsedContent.hookCode # <<>>
    /\ "name" \in DOMAIN streamingHookCode
    /\ streamingHookCode["name"] = <<"N">>
    /\ hookDataToRender = streamingHookCode

\* a submission after the first one is being answered
LaterSession == nextStreams = <<>> /\ cpc \in {"fetching", "reading"}

RECURSIVE SubLists(_)
\* the lists made of some of the elements of a list, in order
SubLists(list) ==
    IF list = <<>> THEN { <<>> }
    ELSE LET others == SubLists(Tail(list))
         IN  others \cup { <<Head(list)>> \o l : l \in others }

\* the value of a field of the partial record comes from a completed region
\* of the fragments of the running session
FromThisSession(field, open, close) ==
    field \in DOMAIN streamingHookCode =>
        \E i \in 1 .. Len(Regions(Delivered, open, close)) :
            streamingHookCode[field] = Regions(Delivered, open, close)[i]

\* C17: a new streaming session starts from empty state.  While a later
\* submission of the same component is answered, nothing extracted in an
\* earlier session appears in its reply or its partial record: the
\* accumulated reply is made of reply regions of the new session's fragments
\* only, and the code and the name of the partial record are regions of the
\* new session's fragments.
C17_FreshSession ==
    LaterSession =>
        /\ \E l \in SubLists(Regions(Delivered, OpenReply, CloseReply)) :
              accumulatedReplyRef = Concat(l)
        /\ FromThisSession("code", OpenHookCode, CloseHookCode)
        /\ FromThisSession("name", OpenName, CloseName)

\* the read loops (processStreamEvents) that have not returned
LoopsReading == Len(olderLoops) + (IF cpc = "reading" THEN 1 ELSE 0)

\* C18: single task per session state.  At any time at most one read loop
\* (processStreamEvents) reads into the component's tag buffer and reply
\* accumulator, also after an error frame, a [DONE] frame or Stop.
C18_SingleLoop == LoopsReading <= 1

----------------------------------------------------------------------------
(* Claims about a handler called in any order (SpecHandlerCalls) *)

\* C21: contract violations are fatal and distinct.  A call of processFragment
\* or getFinalData on a handler whose getFinalData has already been called is
\* rejected: it neither changes the handler's raw content and record nor
\* returns another final record.
C21_LateCallsRejected ==
    [][(hpc = "final" \/ hpc = "late") =>
          /\ rawContent' = rawContent
          /\ lastParsedData' = lastParsedData
          /\ (finalData' = finalData)]_vars

----------------------------------------------------------------------------
(* Claims about processHookCodeChunk (SpecFallback) *)

\* the fields of a record other than the diagnostic _rawContent
NonDiagnostic(rec) == Delete(rec, "_rawContent")

\* C22: the fallback JSON path keeps the last good state.  When a string
\* chunk is processed and neither JSON.parse of the chunk nor JSON.parse of
\* the repaired accumulated raw content succeeds, every non-diagnostic field
\* of the record is as it was, and _rawContent is the raw content retained
\* before followed by the chunk.
C22_FallbackKeepsRecord ==
    [][(parseOutcome' = "failed" /\ rest' # rest) =>
          /\ NonDiagnostic(streamingHookCode') = NonDiagnostic(streamingHookCode)
          /\ "_rawContent" \in DOMAIN streamingHookCode'
          /\ (streamingHookCode'["_rawContent"] =
                 RawOf(streamingHookCode) \o SubSeq(rest, 1, Len(rest) - Len(rest')))]_vars

\* two chunks failed to parse after a field had been set, and their text is
\* retained
C22_Witness ==
    /\ parseOutcome = "failed"
    /\ split
    /\ "description" \in DOMAIN streamingHookCode
    /\ "name" \notin DOMAIN streamingHookCode
    /\ Len(RawOf(streamingHookCode)) > 1
    /\ RawOf(streamingHookCode) = SubSeq(payload, 1, Len(payload) - Len(rest))

----------------------------------------------------------------------------
(* Claims about the streaming handlers of the server (SpecServer) *)

FramesOfType(type) == { i \in 1 .. Len(frames) : frames[i].type = type }

\* C23: the terminal sentinel marks a clean end only.  A response in which
\* an error frame was written is not terminated by the [DONE] frame.
C23_DoneOnlyOnCleanEnd ==
    (resEnded /\ FramesOfType("error") # {}) => FramesOfType("done") = {}

\* C28: every streamed response ends with exactly one terminal frame.  A
\* response that is being streamed holds no [DONE] frame until it is ended,
\* and an ended one holds exactly one, as its last frame, on the success path
\* and on the error paths of chat, generateReply and generateHookCode.
C28_OneTerminalFrame ==
    resStatus = 0 =>
        IF resEnded
        THEN FramesOfType("done") = { Len(frames) } /\ frames # <<>>
        ELSE FramesOfType("done") = {}

\* a chat response ended after the reply, a hook code chunk and the error
\* frame of the hook code stream
C28_Witness ==
    /\ resEnded
    /\ route = "chat"
    /\ FramesOfType("reply") # {}
    /\ FramesOfType("hookCode") # {}
    /\ FramesOfType("error") = { Len(frames) - 1 }
    /\ frames[Len(frames)] = DoneFrame

\* C30: hook code round-trips through persistence.  While a request is
\* served for a session that has a stored hook code, the hook code
\* initializeSession returned for the request is the stored one: an object
\* with the stored name, description and code.
C30_HookCodeRoundTrip ==
    (spc # "idle" /\ hookCodes.kind = "object") =>
        /\ sessionHookCode.kind = "object"
        /\ \A k \in {"name", "description", "code"} :
              /\ k \in DOMAIN sessionHookCode.value
              /\ sessionHookCode.value[k] = hookCodes.value[k]

----------------------------------------------------------------------------
(* Claims about the reassembly of server-sent events (SpecReader) *)

\* C29: the reassembly does not depend on the reads.  Whatever the reads
\* were, the events handled and the buffer kept are those of one read of
\* all the bytes received: an event is handled once, when its blank line
\* has arrived, and none is handled twice or dropped.
C29_ReadsDoNotMatter ==
    (hpc = "wire" \/ hpc = "wireDone") =>
        /\ sseEvents = readValue(<<>>, <<>>, Delivered).events
        /\ sseBuffer = readValue(<<>>, <<>>, Delivered).buffer

\* a body of two events read to its end, where a read ended inside an event
C29_Witness ==
    /\ hpc = "wireDone"
    /\ split
    /\ payload = WireDataA \o WireDone
    /\ sseEvents = << <<"a">>, <<"[","D","O","N","E","]">> >>

\* a request has just been taken up to its SSE headers
RequestStarts == spc = "idle" /\ spc' # "idle"

\* C31: the user message is stored once.  Taking up a chat or generateReply
\* request adds exactly one row to the session's messages: the request's
\* latest user message.
C31_UserMessageStoredOnce ==
    [][(RequestStarts /\ route' # "generateHookCode") =>
          (messages' = Append(messages, [role |-> "user", content |-> userMessage']))]_vars

\* C32: the history leaves the current message out.  The history
\* initializeSession returns renders, in stored order, every row of the
\* session but the last one stored, the current user message.
C32_HistoryWithoutCurrent ==
    [][RequestStarts =>
          (messageHistory' = HistoryLines(SubSeq(messages', 1, Len(messages') - 1)))]_vars

----------------------------------------------------------------------------
(* Claims about createHookCode (SpecUpsert) *)

\* C33: createHookCode is an upsert safe under concurrency.  However the
\* calls for one session interleave, every call that has completed has
\* completed without error, and once a call has completed the session has
\* exactly one HookCode row.
C33_UpsertSafe ==
    \A c \in DOMAIN upsertCalls :
        upsertCalls[c].pc = "done" =>
            /\ upsertCalls[c].result = "ok"
            /\ Cardinality(RowsOfSession(hookRows, TheSession)) = 1

----------------------------------------------------------------------------
(* Claims about LLMModelManager (SpecManager) *)

\* C37: the first configuration wins.  Once a getInstance call has
\* succeeded, every later getInstance call leaves the instance as it is and
\* returns it, with its model and its tools setting, whatever provider,
\* model name or enableTools value the call passes.
C37_FirstConfigurationWins ==
    [][(~llmInstance.isNull /\ llmCallsLeft' # llmCallsLeft) =>
          /\ llmInstance' = llmInstance
          /\ ~llmReturned'.isNull
          /\ (llmReturned'.value.manager = llmInstance.value)]_vars

\* a call asking for another provider, model name and tools setting has
\* been given the manager built by the first successful call
C37_Witness ==
    /\ ~llmInstance.isNull
    /\ ~llmReturned.isNull
    /\ llmReturned.value.manager = llmInstance.value
    /\ llmInstance.value.id = 1
    /\ llmInstance.value.model.chat = "ChatOpenAI"
    /\ llmReturned.value.config.provider = "anthropic"
    /\ llmReturned.value.config.modelName # llmInstance.value.model.modelName
    /\ llmReturned.value.config.enableTools = "true"
    /\ ~llmInstance.value.enableTools
    /\ llmCallsLeft < MaxGetInstanceCalls - 1

----------------------------------------------------------------------------
(* Claims about the automatic submission (SpecAuto) *)

\* C36: the first user message is submitted automatically at most once.
\* While the conversation has a user message and no assistant message, at
\* most one automatic submission has been scheduled or started, also after
\* its stream failed, was stopped or ended without an assistant message.
C36_AutoSubmitOnce ==
    (userMsgCount >= 1 /\ Len(assistantMessages) = 0) =>
        autoSubmissions + autoTimers <= 1

\* the automatic submission has failed: no assistant message, the form is
\* enabled again, and only hasAutoSubmittedRef keeps the effect from
\* submitting once more
C36_Witness ==
    /\ autoSubmissions = 1
    /\ cpc = "ended"
    /\ errorsReceived # <<>>
    /\ userMsgCount >= 1
    /\ Len(assistantMessages) = 0
    /\ ~isStreamingReply
    /\ sessionId # "null"
    /\ hasAutoSubmittedRef

====
